---- MODULE Spec2Model ----
(***************************************************************************)
(* Pigs and Farmers: the board state (game.h, game.cpp) and the search     *)
(* engine (ai.h, ai.cpp) as state machines.                                *)
(*                                                                         *)
(* A Bitboard is the set of its squares (0..63, a1 = 0, h8 = 63).  A       *)
(* 64-bit fingerprint is the tuple of its four 16-bit words, lowest word   *)
(* first.  A Move is the 16-bit integer the code packs it into.            *)
(***************************************************************************)
EXTENDS Integers, Sequences, FiniteSets, TLC

(***************************************************************************)
(* Bounds of the model.                                                    *)
(***************************************************************************)
\* makeMove succeeds at most this many times on one Game object
MaxMoves == 3
\* setPosition is called with at most this many pawns
MaxSetPawns == 2

(***************************************************************************)
(* game.h: squares, sides, move flags, results.                            *)
(***************************************************************************)
A2 == 8
H2 == 15
A8 == 56
D8 == 59
NO_SQUARE == 64

WHITE == 0
BLACK == 1

QUIET == 0
DOUBLE_PUSH == 1
CAPTURE == 4

GameResults ==
  {"ONGOING", "WHITE_WINS_PROMOTION", "WHITE_WINS_CAPTURE", "BLACK_WINS",
   "DRAW_STALEMATE"}

Squares == 0..63

fileOf(sq) == sq % 8
rankOf(sq) == sq \div 8
makeSquare(file, rank) == rank * 8 + file
squareBB(sq) == {sq}

RANK_2 == {sq \in Squares : rankOf(sq) = 1}
RANK_8 == {sq \in Squares : rankOf(sq) = 7}

\* struct Move: data = (flags << 12) | (to << 6) | from
Move(f, t, fl) == fl * 4096 + t * 64 + f
NullMove == Move(0, 0, 0)
from(m) == m % 64
to(m) == (m \div 64) % 64
flags(m) == (m \div 4096) % 16
isCapture(m) == (flags(m) \div 4) % 2 = 1
isDoublePush(m) == flags(m) = 1
isPromotion(m) == to(m) >= A8
isValid(m) == m # 0

(***************************************************************************)
(* Zobrist keys: the first 129 outputs of std::mt19937_64 seeded with      *)
(* 0x1234567890ABCDEF, in the order initZobrist draws them (pawnKeys[sq],  *)
(* queenKeys[sq] for sq = 0..63, then sideKey), each as its four 16-bit    *)
(* words, lowest first.  The tables are indexed sq + 1.                    *)
(***************************************************************************)
pawnKeyTable ==
  << <<23443, 15261, 7200, 56931>>, <<23617, 11965, 53704, 22592>>,
     <<43841, 47286, 54090, 1174>>, <<3801, 59416, 6889, 55357>>,
     <<35209, 4010, 29139, 60316>>, <<14253, 51902, 61394, 38182>>,
     <<61593, 62080, 39559, 47261>>, <<16129, 16967, 782, 1092>>,
     <<45062, 14098, 21590, 24304>>, <<13441, 62733, 63695, 4146>>,
     <<54913, 32024, 4457, 36956>>, <<14509, 39083, 40769, 13567>>,
     <<3230, 18069, 50480, 24626>>, <<44964, 58346, 41855, 22636>>,
     <<6075, 20868, 15803, 64157>>, <<21020, 26745, 11227, 17666>>,
     <<21321, 57698, 19098, 57323>>, <<44013, 37454, 19628, 13806>>,
     <<41427, 26479, 62462, 45486>>, <<52028, 63920, 59501, 44517>>,
     <<29425, 46715, 3283, 50691>>, <<47912, 58086, 38707, 37868>>,
     <<46781, 24216, 61887, 34672>>, <<41217, 59296, 44216, 20382>>,
     <<23357, 61101, 63450, 12435>>, <<22490, 48310, 18152, 21508>>,
     <<50093, 18220, 6519, 63104>>, <<50444, 24126, 7394, 13636>>,
     <<61824, 15596, 35550, 58788>>, <<33045, 6656, 52756, 12752>>,
     <<54259, 21891, 38848, 37110>>, <<43608, 52985, 41079, 50259>>,
     <<61302, 43641, 292, 35458>>, <<60393, 30083, 64646, 18866>>,
     <<30317, 8712, 30171, 11958>>, <<35549, 2159, 65163, 4124>>,
     <<24649, 45158, 23066, 10899>>, <<31264, 24175, 22201, 60119>>,
     <<21010, 37506, 41047, 15185>>, <<22058, 26292, 10055, 53305>>,
     <<13988, 19413, 42811, 42604>>, <<52052, 13562, 22979, 46472>>,
     <<45023, 4015, 37267, 5978>>, <<5890, 8474, 55195, 34941>>,
     <<14916, 55834, 57198, 13326>>, <<47713, 17738, 26652, 9796>>,
     <<57765, 30041, 54494, 7016>>, <<27378, 30556, 56037, 19311>>,
     <<11335, 7130, 18444, 43728>>, <<59860, 37527, 16294, 18222>>,
     <<48102, 12396, 41566, 23112>>, <<29514, 5686, 10844, 2225>>,
     <<21502, 28396, 55007, 49831>>, <<24398, 57873, 35066, 4702>>,
     <<37408, 48887, 10619, 49300>>, <<52493, 25643, 11048, 30179>>,
     <<58422, 38217, 59173, 19553>>, <<651, 18270, 45070, 64924>>,
     <<15871, 51411, 51206, 65499>>, <<34337, 33684, 7011, 6868>>,
     <<60728, 5481, 61079, 5074>>, <<26153, 38989, 17559, 53303>>,
     <<4842, 656, 2523, 39480>>, <<29805, 57315, 20248, 45164>> >>

queenKeyTable ==
  << <<3565, 56193, 48378, 13102>>, <<44490, 55850, 34524, 48403>>,
     <<17299, 22199, 40782, 64831>>, <<7702, 61252, 21684, 43547>>,
     <<49644, 7544, 18694, 62271>>, <<34647, 33987, 14740, 26035>>,
     <<36257, 20639, 43828, 62544>>, <<60935, 57837, 58770, 22502>>,
     <<48080, 18048, 51378, 38379>>, <<48884, 7270, 41401, 16727>>,
     <<47814, 24219, 38088, 41399>>, <<21237, 63384, 17772, 8739>>,
     <<56189, 40531, 27333, 47561>>, <<49071, 2365, 19684, 58428>>,
     <<30233, 54693, 35850, 9240>>, <<32267, 8422, 18120, 9006>>,
     <<60616, 25575, 16454, 8615>>, <<14938, 32028, 22008, 58267>>,
     <<40796, 60346, 11450, 25077>>, <<44027, 2318, 7516, 35119>>,
     <<9445, 26218, 23210, 61327>>, <<56819, 36434, 54155, 22814>>,
     <<64677, 26330, 63666, 64209>>, <<10468, 51283, 62537, 29571>>,
     <<52675, 11173, 57044, 49046>>, <<61784, 18332, 40153, 36462>>,
     <<26697, 3983, 60106, 64563>>, <<56094, 49605, 52254, 58988>>,
     <<18134, 39267, 62972, 62854>>, <<10048, 15676, 52952, 54910>>,
     <<22098, 8888, 46371, 53776>>, <<18653, 6088, 26112, 19159>>,
     <<31185, 18504, 38033, 16896>>, <<48273, 9523, 28502, 61683>>,
     <<31257, 17832, 58323, 32270>>, <<37124, 42124, 5767, 20728>>,
     <<6899, 9627, 21208, 13866>>, <<17913, 19440, 63537, 5275>>,
     <<56710, 12287, 21825, 11462>>, <<30370, 65051, 61368, 13032>>,
     <<30677, 2354, 61748, 42282>>, <<55315, 61504, 29315, 24204>>,
     <<49936, 40432, 30511, 17035>>, <<12041, 12506, 47187, 33968>>,
     <<19568, 21118, 41789, 2698>>, <<17154, 57169, 45715, 59417>>,
     <<33383, 26848, 41791, 35410>>, <<16834, 33224, 24464, 51832>>,
     <<8329, 58844, 47173, 47457>>, <<38428, 63119, 22365, 65126>>,
     <<49605, 51779, 43956, 35319>>, <<64756, 62333, 26841, 42107>>,
     <<38972, 59466, 9251, 61799>>, <<40723, 51588, 8207, 35268>>,
     <<54932, 33613, 11860, 8639>>, <<28539, 27322, 57936, 15171>>,
     <<14779, 42145, 61928, 39118>>, <<62853, 3540, 8354, 52119>>,
     <<11063, 14327, 22032, 37355>>, <<35227, 56548, 22896, 21285>>,
     <<63063, 51880, 3384, 60362>>, <<51986, 81, 38012, 11379>>,
     <<60769, 57378, 20629, 1871>>, <<40764, 20107, 34039, 33190>> >>

sideKey == <<11429, 37826, 43741, 36749>>

pawnKeys == [sq \in Squares |-> pawnKeyTable[sq + 1]]
queenKeys == [sq \in Squares |-> queenKeyTable[sq + 1]]

\* a ^ b on the low n bits of two naturals
RECURSIVE xorBits(_, _, _)
xorBits(a, b, n) ==
  IF n = 0 THEN 0
  ELSE IF a = 0 THEN b
  ELSE IF b = 0 THEN a
  ELSE ((a + b) % 2) + 2 * xorBits(a \div 2, b \div 2, n - 1)

\* a ^ b on 4-bit values, tabulated
XorNibble == [a \in 0..15 |-> [b \in 0..15 |-> xorBits(a, b, 4)]]

\* a ^ b on 16-bit values
xorWord(a, b) ==
  XorNibble[a % 16][b % 16]
    + 16 * XorNibble[(a \div 16) % 16][(b \div 16) % 16]
    + 256 * XorNibble[(a \div 256) % 16][(b \div 256) % 16]
    + 4096 * XorNibble[a \div 4096][b \div 4096]

\* a ^ b on 64-bit values
XOR(a, b) == [i \in 1..4 |-> xorWord(a[i], b[i])]

\* the 64-bit value 0
ZeroHash == <<0, 0, 0, 0>>

(***************************************************************************)
(* Bitboard utilities.                                                     *)
(***************************************************************************)
popCount(bb) == Cardinality(bb)

lsb(bb) == IF bb = {} THEN -1 ELSE CHOOSE sq \in bb : \A o \in bb : sq <= o

\* the squares of bb in the order "while (bb) { sq = lsb(bb); bb &= bb - 1; }"
\* visits them
RECURSIVE bitScan(_)
bitScan(bb) ==
  IF bb = {} THEN <<>> ELSE <<lsb(bb)>> \o bitScan(bb \ {lsb(bb)})

\* one ray loop of rookAttacks / bishopAttacks: step (dr, df) from (r, f),
\* add every square met, stop after the first occupied one or at the edge
RECURSIVE rayAttacks(_, _, _, _, _)
rayAttacks(r, f, dr, df, occupied) ==
  LET nr == r + dr
      nf == f + df
  IN IF nr < 0 \/ nr >= 8 \/ nf < 0 \/ nf >= 8 THEN {}
     ELSE IF makeSquare(nf, nr) \in occupied THEN squareBB(makeSquare(nf, nr))
     ELSE squareBB(makeSquare(nf, nr)) \cup rayAttacks(nr, nf, dr, df, occupied)

rookAttacks(sq, occupied) ==
  rayAttacks(rankOf(sq), fileOf(sq), 1, 0, occupied)
    \cup rayAttacks(rankOf(sq), fileOf(sq), -1, 0, occupied)
    \cup rayAttacks(rankOf(sq), fileOf(sq), 0, 1, occupied)
    \cup rayAttacks(rankOf(sq), fileOf(sq), 0, -1, occupied)

bishopAttacks(sq, occupied) ==
  rayAttacks(rankOf(sq), fileOf(sq), 1, 1, occupied)
    \cup rayAttacks(rankOf(sq), fileOf(sq), 1, -1, occupied)
    \cup rayAttacks(rankOf(sq), fileOf(sq), -1, 1, occupied)
    \cup rayAttacks(rankOf(sq), fileOf(sq), -1, -1, occupied)

queenAttacks(sq, occupied) ==
  rookAttacks(sq, occupied) \cup bishopAttacks(sq, occupied)

(***************************************************************************)
(* class Game.  A game value is the record of the object's fields:         *)
(* pawns, queen, sideToMove, hash, ply, moveHistory (a sequence of         *)
(* UndoInfo records [move, capturedPiece, hash], last pushed last).        *)
(***************************************************************************)
\* the fingerprint of (p, q, side) computed from scratch, as setPosition does
RECURSIVE hashOfPawns(_)
hashOfPawns(bb) ==
  IF bb = {} THEN ZeroHash ELSE XOR(pawnKeys[lsb(bb)], hashOfPawns(bb \ {lsb(bb)}))

RECURSIVE hashOfQueens(_)
hashOfQueens(bb) ==
  IF bb = {} THEN ZeroHash ELSE XOR(queenKeys[lsb(bb)], hashOfQueens(bb \ {lsb(bb)}))

\* Game::reset: every field but moveHistory is assigned
reset(g) ==
  [g EXCEPT !.pawns = RANK_2,
            !.queen = squareBB(D8),
            !.sideToMove = WHITE,
            !.ply = 0,
            !.hash = XOR(hashOfPawns(A2..H2), queenKeys[D8])]

\* Game::Game: the vector starts empty, then reset()
NewGame ==
  reset([pawns |-> {}, queen |-> {}, sideToMove |-> WHITE, hash |-> ZeroHash,
         ply |-> 0, moveHistory |-> <<>>])

setPosition(g, p, q, side) ==
  [pawns |-> p,
   queen |-> q,
   sideToMove |-> side,
   ply |-> 0,
   moveHistory |-> <<>>,
   hash |-> XOR(XOR(hashOfPawns(p), hashOfQueens(q)),
                IF side = BLACK THEN sideKey ELSE ZeroHash)]

\* pawnMovesFrom without the file tests of the two captures
pawnMovesFrom_NoFileTest(g, sq) ==
  LET occupied == g.pawns \cup g.queen
      pushes ==
        IF sq + 8 < 64 /\ (sq + 8) \notin occupied
        THEN <<Move(sq, sq + 8, QUIET)>>
               \o (IF rankOf(sq) = 1 /\ (sq + 16) \notin occupied
                   THEN <<Move(sq, sq + 16, DOUBLE_PUSH)>> ELSE <<>>)
        ELSE <<>>
      left ==
        IF sq + 7 < 64 /\ (sq + 7) \in g.queen
        THEN <<Move(sq, sq + 7, CAPTURE)>> ELSE <<>>
      right ==
        IF sq + 9 < 64 /\ (sq + 9) \in g.queen
        THEN <<Move(sq, sq + 9, CAPTURE)>> ELSE <<>>
  IN pushes \o left \o right

\* the moves generatePawnMoves pushes for the pawn on square sq
pawnMovesFrom(g, sq) ==
  LET occupied == g.pawns \cup g.queen
      rank == rankOf(sq)
      file == fileOf(sq)
      pushes ==
        IF sq + 8 < 64 /\ (sq + 8) \notin occupied
        THEN <<Move(sq, sq + 8, QUIET)>>
               \o (IF rank = 1 /\ (sq + 16) \notin occupied
                   THEN <<Move(sq, sq + 16, DOUBLE_PUSH)>> ELSE <<>>)
        ELSE <<>>
      left ==
        IF file > 0 /\ sq + 7 < 64 /\ (sq + 7) \in g.queen
        THEN <<Move(sq, sq + 7, CAPTURE)>> ELSE <<>>
      right ==
        IF file < 7 /\ sq + 9 < 64 /\ (sq + 9) \in g.queen
        THEN <<Move(sq, sq + 9, CAPTURE)>> ELSE <<>>
  IN pushes \o left \o right

RECURSIVE pawnMovesOf(_, _)
pawnMovesOf(g, bb) ==
  IF bb = {} THEN <<>>
  ELSE pawnMovesFrom(g, lsb(bb)) \o pawnMovesOf(g, bb \ {lsb(bb)})

generatePawnMoves(g) == pawnMovesOf(g, g.pawns)

generateQueenMoves(g) ==
  IF g.queen = {} THEN <<>>
  ELSE LET fromSq == lsb(g.queen)
           occupied == g.pawns \cup g.queen
           attacks == queenAttacks(fromSq, occupied)
           nonCaptures == bitScan(attacks \ occupied)
           captures == bitScan(attacks \cap g.pawns)
       IN [i \in 1..Len(nonCaptures) |-> Move(fromSq, nonCaptures[i], QUIET)]
            \o [i \in 1..Len(captures) |-> Move(fromSq, captures[i], CAPTURE)]

generateLegalMoves(g) ==
  IF g.sideToMove = WHITE THEN generatePawnMoves(g) ELSE generateQueenMoves(g)

\* isLegalMove comparing origin and destination only, not the flags
isLegalMove_IgnoreFlags(g, m) ==
  LET moves == generateLegalMoves(g)
  IN \E i \in 1..Len(moves) :
       from(moves[i]) = from(m) /\ to(moves[i]) = to(m)

isLegalMove(g, m) ==
  LET moves == generateLegalMoves(g)
  IN \E i \in 1..Len(moves) : moves[i] = m

\* hashAfterMove without the captured piece's key
hashAfterMove_NoCapturedKey(g, m) ==
  LET moved ==
        IF g.sideToMove = WHITE
        THEN XOR(pawnKeys[from(m)], pawnKeys[to(m)])
        ELSE XOR(queenKeys[from(m)], queenKeys[to(m)])
  IN XOR(XOR(g.hash, moved), sideKey)

\* the fingerprint makeMove leaves: the captured piece's key, the moved
\* piece's two keys, the side key
hashAfterMove(g, m) ==
  LET captured ==
        IF ~isCapture(m) THEN ZeroHash
        ELSE IF g.sideToMove = WHITE THEN queenKeys[to(m)] ELSE pawnKeys[to(m)]
      moved ==
        IF g.sideToMove = WHITE
        THEN XOR(pawnKeys[from(m)], pawnKeys[to(m)])
        ELSE XOR(queenKeys[from(m)], queenKeys[to(m)])
  IN XOR(XOR(XOR(g.hash, captured), moved), sideKey)

\* makeMove that leaves the captured pawn on the board
makeMove_KeepCapturedPawn(g, m) ==
  IF ~isLegalMove(g, m) THEN [ok |-> FALSE, game |-> g]
  ELSE
    LET undo ==
          [move |-> m,
           hash |-> g.hash,
           capturedPiece |->
             IF ~isCapture(m) THEN {}
             ELSE IF g.sideToMove = WHITE THEN g.queen ELSE squareBB(to(m))]
    IN [ok |-> TRUE,
        game |->
          [pawns |->
             IF g.sideToMove = WHITE
             THEN (g.pawns \ squareBB(from(m))) \cup squareBB(to(m))
             ELSE g.pawns,
           queen |->
             IF g.sideToMove = WHITE
             THEN (IF isCapture(m) THEN {} ELSE g.queen)
             ELSE (g.queen \ squareBB(from(m))) \cup squareBB(to(m)),
           hash |-> hashAfterMove(g, m),
           sideToMove |-> IF g.sideToMove = WHITE THEN BLACK ELSE WHITE,
           ply |-> g.ply + 1,
           moveHistory |-> Append(g.moveHistory, undo)]]

\* makeMove that leaves a pawn that is pushed where it was
makeMove_PushStays(g, m) ==
  IF ~isLegalMove(g, m) THEN [ok |-> FALSE, game |-> g]
  ELSE
    LET undo ==
          [move |-> m,
           hash |-> g.hash,
           capturedPiece |->
             IF ~isCapture(m) THEN {}
             ELSE IF g.sideToMove = WHITE THEN g.queen ELSE squareBB(to(m))]
    IN [ok |-> TRUE,
        game |->
          [pawns |->
             IF g.sideToMove = WHITE
             THEN (IF isCapture(m)
                   THEN (g.pawns \ squareBB(from(m))) \cup squareBB(to(m))
                   ELSE g.pawns)
             ELSE IF isCapture(m) THEN g.pawns \ squareBB(to(m)) ELSE g.pawns,
           queen |->
             IF g.sideToMove = WHITE
             THEN (IF isCapture(m) THEN {} ELSE g.queen)
             ELSE (g.queen \ squareBB(from(m))) \cup squareBB(to(m)),
           hash |-> hashAfterMove(g, m),
           sideToMove |-> IF g.sideToMove = WHITE THEN BLACK ELSE WHITE,
           ply |-> g.ply + 1,
           moveHistory |-> Append(g.moveHistory, undo)]]

\* Game::makeMove: [ok |-> the bool returned, game |-> the object afterwards]
makeMove(g, m) ==
  IF ~isLegalMove(g, m) THEN [ok |-> FALSE, game |-> g]
  ELSE
    LET undo ==
          [move |-> m,
           hash |-> g.hash,
           capturedPiece |->
             IF ~isCapture(m) THEN {}
             ELSE IF g.sideToMove = WHITE THEN g.queen ELSE squareBB(to(m))]
    IN [ok |-> TRUE,
        game |->
          [pawns |->
             IF g.sideToMove = WHITE
             THEN (g.pawns \ squareBB(from(m))) \cup squareBB(to(m))
             ELSE IF isCapture(m) THEN g.pawns \ squareBB(to(m)) ELSE g.pawns,
           queen |->
             IF g.sideToMove = WHITE
             THEN (IF isCapture(m) THEN {} ELSE g.queen)
             ELSE (g.queen \ squareBB(from(m))) \cup squareBB(to(m)),
           hash |-> hashAfterMove(g, m),
           sideToMove |-> IF g.sideToMove = WHITE THEN BLACK ELSE WHITE,
           ply |-> g.ply + 1,
           moveHistory |-> Append(g.moveHistory, undo)]]

\* unmakeMove without the test for an empty history: the record read is
\* then the null record
unmakeMove_NoEmptyTest(g) ==
  LET undo == IF g.moveHistory = <<>>
              THEN [move |-> NullMove, capturedPiece |-> {}, hash |-> ZeroHash]
              ELSE g.moveHistory[Len(g.moveHistory)]
      side == IF g.sideToMove = WHITE THEN BLACK ELSE WHITE
      f == from(undo.move)
      t == to(undo.move)
  IN [ok |-> TRUE,
      game |->
        [pawns |->
           IF side = WHITE
           THEN (g.pawns \ squareBB(t)) \cup squareBB(f)
           ELSE IF isCapture(undo.move) THEN g.pawns \cup undo.capturedPiece
                ELSE g.pawns,
         queen |->
           IF side = WHITE
           THEN (IF isCapture(undo.move) THEN undo.capturedPiece ELSE g.queen)
           ELSE (g.queen \ squareBB(t)) \cup squareBB(f),
         hash |-> undo.hash,
         sideToMove |-> side,
         ply |-> g.ply - 1,
         moveHistory |->
           IF g.moveHistory = <<>> THEN <<>>
           ELSE SubSeq(g.moveHistory, 1, Len(g.moveHistory) - 1)]]

\* Game::unmakeMove
unmakeMove(g) ==
  IF g.moveHistory = <<>> THEN [ok |-> FALSE, game |-> g]
  ELSE
    LET undo == g.moveHistory[Len(g.moveHistory)]
        side == IF g.sideToMove = WHITE THEN BLACK ELSE WHITE
        f == from(undo.move)
        t == to(undo.move)
    IN [ok |-> TRUE,
        game |->
          [pawns |->
             IF side = WHITE
             THEN (g.pawns \ squareBB(t)) \cup squareBB(f)
             ELSE IF isCapture(undo.move) THEN g.pawns \cup undo.capturedPiece
                  ELSE g.pawns,
           queen |->
             IF side = WHITE
             THEN (IF isCapture(undo.move) THEN undo.capturedPiece ELSE g.queen)
             ELSE (g.queen \ squareBB(t)) \cup squareBB(f),
           hash |-> undo.hash,
           sideToMove |-> side,
           ply |-> g.ply - 1,
           moveHistory |-> SubSeq(g.moveHistory, 1, Len(g.moveHistory) - 1)]]

\* getResult with the captured-queen test made before the far-rank test
getResult_CaptureFirst(g) ==
  IF g.queen = {} THEN "WHITE_WINS_CAPTURE"
  ELSE IF g.pawns \cap RANK_8 # {} THEN "WHITE_WINS_PROMOTION"
  ELSE IF g.pawns = {} THEN "BLACK_WINS"
  ELSE IF generateLegalMoves(g) = <<>> THEN "DRAW_STALEMATE"
  ELSE "ONGOING"

getResult(g) ==
  IF g.pawns \cap RANK_8 # {} THEN "WHITE_WINS_PROMOTION"
  ELSE IF g.queen = {} THEN "WHITE_WINS_CAPTURE"
  ELSE IF g.pawns = {} THEN "BLACK_WINS"
  ELSE IF generateLegalMoves(g) = <<>> THEN "DRAW_STALEMATE"
  ELSE "ONGOING"

isGameOver(g) == getResult(g) # "ONGOING"

getQueenSquare(g) == IF g.queen = {} THEN NO_SQUARE ELSE lsb(g.queen)

getPawnCount(g) == popCount(g.pawns)

\* A std::string is the sequence of its character codes: 'a' is 97, '1' is 49.
files == <<97, 98, 99, 100, 101, 102, 103, 104>>
ranks == <<49, 50, 51, 52, 53, 54, 55, 56>>

moveToAlgebraic(move) ==
  << files[fileOf(from(move)) + 1], ranks[rankOf(from(move)) + 1],
     files[fileOf(to(move)) + 1], ranks[rankOf(to(move)) + 1] >>

\* algebraicToMove that never sets the double-step flag
algebraicToMove_NoDoublePush(g, str) ==
  IF Len(str) < 4 THEN NullMove
  ELSE
    LET fromFile == str[1] - 97
        fromRank == str[2] - 49
        toFile == str[3] - 97
        toRank == str[4] - 49
        fromSq == makeSquare(fromFile, fromRank)
        toSq == makeSquare(toFile, toRank)
        toBB == squareBB(toSq)
        fl == IF g.sideToMove = WHITE
              THEN (IF g.queen \cap toBB # {} THEN CAPTURE ELSE QUIET)
              ELSE (IF g.pawns \cap toBB # {} THEN CAPTURE ELSE QUIET)
    IN IF fromFile < 0 \/ fromFile > 7 \/ fromRank < 0 \/ fromRank > 7
          \/ toFile < 0 \/ toFile > 7 \/ toRank < 0 \/ toRank > 7
       THEN NullMove
       ELSE Move(fromSq, toSq, fl)

algebraicToMove(g, str) ==
  IF Len(str) < 4 THEN NullMove
  ELSE
    LET fromFile == str[1] - 97
        fromRank == str[2] - 49
        toFile == str[3] - 97
        toRank == str[4] - 49
        fromSq == makeSquare(fromFile, fromRank)
        toSq == makeSquare(toFile, toRank)
        toBB == squareBB(toSq)
        fl == IF g.sideToMove = WHITE
              THEN (IF g.queen \cap toBB # {} THEN CAPTURE
                    ELSE IF toRank - fromRank = 2 THEN DOUBLE_PUSH
                    ELSE QUIET)
              ELSE (IF g.pawns \cap toBB # {} THEN CAPTURE ELSE QUIET)
    IN IF fromFile < 0 \/ fromFile > 7 \/ fromRank < 0 \/ fromRank > 7
          \/ toFile < 0 \/ toFile > 7 \/ toRank < 0 \/ toRank > 7
       THEN NullMove
       ELSE Move(fromSq, toSq, fl)

(***************************************************************************)
(* ai.h: the constants of the search engine.                               *)
(***************************************************************************)
TT_EXACT == 0
TT_ALPHA == 1
TT_BETA == 2

TT_SIZE == 1048576

MATE_SCORE == 100000
INFINITY_SCORE == 1000000

PAWN_VALUE == 100
QUEEN_VALUE == 900

\* static_cast<int16_t>(x) and static_cast<int8_t>(x) of an int, and the
\* wrap of a uint8_t
toInt16(x) == ((x + 32768) % 65536) - 32768
toInt8(x) == ((x + 128) % 256) - 128
toUint8(x) == x % 256

abs(x) == IF x < 0 THEN -x ELSE x

RECURSIVE sumSeq(_)
sumSeq(s) == IF s = <<>> THEN 0 ELSE Head(s) + sumSeq(Tail(s))

\* PVLine after clear(); a PVLine is [moves, score, depth]
ZeroPV == [moves |-> <<>>, score |-> 0, depth |-> 0]

\* the SearchInfo search() starts from; a SearchInfo is
\* [depth, selDepth, score, nodes, pvLines] (timeMs and nps, which only
\* record the clock, are left out)
ZeroInfo ==
  [depth |-> 0, selDepth |-> 0, score |-> 0, nodes |-> 0, pvLines |-> <<>>]

(***************************************************************************)
(* AI::evaluate.                                                           *)
(***************************************************************************)
\* the advancement and promotion bonus of the pawn on sq (first pawn loop)
advancementBonus(g, sq, queenAttacksBB) ==
  LET rank == rankOf(sq)
      canBeCaptured == (queenAttacksBB \cap squareBB(sq)) # {}
      isQueenTurn == g.sideToMove = BLACK
      advBonus == (2 ^ (rank - 1)) * 5
      promoBonus ==
        (IF rank >= 5 THEN (rank - 4) * 50 ELSE 0) + (IF rank = 7 THEN 200 ELSE 0)
  IN IF canBeCaptured /\ isQueenTurn
     THEN (advBonus \div 4) + (promoBonus \div 4)
     ELSE IF canBeCaptured
     THEN ((advBonus * 3) \div 4) + ((promoBonus * 3) \div 4)
     ELSE advBonus + promoBonus

\* the structure term of the pawn on sq (second pawn loop)
structureBonus(g, sq, queenSq) ==
  LET file == fileOf(sq)
      rank == rankOf(sq)
  IN (IF file > 0 /\ (sq - 1) \in g.pawns THEN 5 ELSE 0)
       + (IF file < 7 /\ (sq + 1) \in g.pawns THEN 5 ELSE 0)
       - (IF queenSq # NO_SQUARE /\ fileOf(queenSq) = file /\ rankOf(queenSq) > rank
          THEN 20 ELSE 0)

evaluate(g) ==
  LET pawnCount == getPawnCount(g)
      queenSq == getQueenSquare(g)
      result == getResult(g)
      occupied == g.pawns \cup g.queen
      queenAttacksBB ==
        IF queenSq # NO_SQUARE THEN queenAttacks(queenSq, occupied) ELSE {}
      pawnSeq == bitScan(g.pawns)
      material ==
        pawnCount * PAWN_VALUE - (IF queenSq # NO_SQUARE THEN QUEEN_VALUE ELSE 0)
      advancement ==
        sumSeq([i \in 1..Len(pawnSeq) |->
                  advancementBonus(g, pawnSeq[i], queenAttacksBB)])
      queenTerm ==
        IF queenSq = NO_SQUARE THEN 0
        ELSE (4 - abs(fileOf(queenSq) - 3)) * 5
               + (8 - rankOf(queenSq)) * 3
               + popCount(queenAttacksBB \ g.queen) * 2
               + popCount(queenAttacksBB \cap g.pawns) * 10
      structure ==
        sumSeq([i \in 1..Len(pawnSeq) |-> structureBonus(g, pawnSeq[i], queenSq)])
      tempo == IF g.sideToMove = WHITE THEN 10 ELSE -10
  IN IF result \in {"WHITE_WINS_PROMOTION", "WHITE_WINS_CAPTURE"}
     THEN MATE_SCORE - 100
     ELSE IF result = "BLACK_WINS" THEN -MATE_SCORE + 100
     ELSE IF result = "DRAW_STALEMATE" THEN 0
     ELSE material + advancement - queenTerm + structure + tempo

(***************************************************************************)
(* class AI.  An engine value is the record of the object's fields:        *)
(* multiPV, maxDepth, timeLimitMs, callback (is one set), shouldStop,      *)
(* searching, nodes, ttHits, selDepth, bestMoveFound, transTable, ttAge,   *)
(* killers, history.  The three tables are kept sparse: transTable maps    *)
(* the indices written so far to their entry, killers the plies written    *)
(* to their two moves, history the (from, to) pairs written to their       *)
(* count; everything else holds the value the constructor left.            *)
(***************************************************************************)
\* TTEntry{}
EmptyEntry ==
  [hash |-> ZeroHash, score |-> 0, depth |-> 0, flag |-> 0,
   bestMove |-> NullMove, age |-> 0]

NoKillers == <<NullMove, NullMove>>

\* AI::AI; nodes, ttHits and selDepth are indeterminate until search()
\* assigns them, and nothing reads them before
NewAI ==
  [multiPV |-> 3, maxDepth |-> 64, timeLimitMs |-> 0, callback |-> FALSE,
   shouldStop |-> FALSE, searching |-> FALSE,
   nodes |-> 0, ttHits |-> 0, selDepth |-> 0, bestMoveFound |-> NullMove,
   transTable |-> [x \in {} |-> EmptyEntry], ttAge |-> 0,
   killers |-> [x \in {} |-> NoKillers], history |-> [x \in {} |-> 0]]

\* hash % TT_SIZE: TT_SIZE is 2^16 times a divisor of 2^16, so the index is
\* the lowest word and the low bits of the second
ttIndex(hash) == hash[1] + (hash[2] % (TT_SIZE \div 65536)) * 65536

ttSlot(a, index) ==
  IF index \in DOMAIN a.transTable THEN a.transTable[index] ELSE EmptyEntry

killersAt(a, ply) ==
  IF ply \in DOMAIN a.killers THEN a.killers[ply] ELSE NoKillers

historyAt(a, f, t) ==
  IF <<f, t>> \in DOMAIN a.history THEN a.history[<<f, t>>] ELSE 0

\* storeTT that keeps a deeper entry of the same position whatever its age
storeTT_IgnoreAge(a, hash, score, depth, flag, bestMove) ==
  LET index == ttIndex(hash)
      entry == ttSlot(a, index)
  IN IF entry.hash # hash \/ depth >= entry.depth
     THEN [a EXCEPT !.transTable =
             (index :> [hash |-> hash,
                        score |-> toInt16(score),
                        depth |-> toInt8(depth),
                        flag |-> flag,
                        bestMove |-> bestMove,
                        age |-> a.ttAge]) @@ @]
     ELSE a

\* AI::storeTT: the engine afterwards
storeTT(a, hash, score, depth, flag, bestMove) ==
  LET index == ttIndex(hash)
      entry == ttSlot(a, index)
  IN IF entry.hash # hash \/ depth >= entry.depth \/ entry.age # a.ttAge
     THEN [a EXCEPT !.transTable =
             (index :> [hash |-> hash,
                        score |-> toInt16(score),
                        depth |-> toInt8(depth),
                        flag |-> flag,
                        bestMove |-> bestMove,
                        age |-> a.ttAge]) @@ @]
     ELSE a

\* probeTT that trusts whatever fresh entry the slot holds
probeTT_IndexOnly(a, hash) ==
  LET entry == ttSlot(a, ttIndex(hash))
  IN IF ttIndex(hash) \in DOMAIN a.transTable
          /\ (entry.age = a.ttAge \/ entry.age = a.ttAge - 1)
     THEN [hit |-> TRUE, entry |-> entry, ai |-> [a EXCEPT !.ttHits = @ + 1]]
     ELSE [hit |-> FALSE, entry |-> EmptyEntry, ai |-> a]

\* AI::probeTT: [hit |-> a pointer is returned, entry |-> what it points
\* to, ai |-> the engine afterwards]; ttAge - 1 is computed in int
probeTT(a, hash) ==
  LET entry == ttSlot(a, ttIndex(hash))
  IN IF entry.hash = hash /\ (entry.age = a.ttAge \/ entry.age = a.ttAge - 1)
     THEN [hit |-> TRUE, entry |-> entry, ai |-> [a EXCEPT !.ttHits = @ + 1]]
     ELSE [hit |-> FALSE, entry |-> EmptyEntry, ai |-> a]

\* TTEntry::isValid
entryIsValid(entry, h, d) == entry.hash = h /\ entry.depth >= d

scoreMove(a, move, g, ttMove, ply) ==
  IF move = ttMove THEN 1000000
  ELSE
    LET capture ==
          IF isCapture(move)
          THEN (IF g.sideToMove = WHITE THEN 900000 ELSE 100000)
          ELSE 0
        killer ==
          IF ply < 128
          THEN (IF move = killersAt(a, ply)[1] THEN 90000
                ELSE IF move = killersAt(a, ply)[2] THEN 80000
                ELSE 0)
          ELSE 0
        promotion == IF g.sideToMove = WHITE /\ to(move) >= A8 THEN 500000 ELSE 0
        advance == IF g.sideToMove = WHITE THEN rankOf(to(move)) * 100 ELSE 0
    IN capture + killer + historyAt(a, from(move), to(move)) + promotion + advance

\* std::sort of (score, move) pairs by descending score.  The order of pairs
\* with equal scores is the one they had before (what the insertion sort of
\* the library does; the standard leaves it open).
RECURSIVE insertScored(_, _)
insertScored(sorted, p) ==
  IF sorted = <<>> THEN <<p>>
  ELSE IF p[1] > Head(sorted)[1] THEN <<p>> \o sorted
  ELSE <<Head(sorted)>> \o insertScored(Tail(sorted), p)

RECURSIVE sortScored(_)
sortScored(s) ==
  IF s = <<>> THEN <<>>
  ELSE insertScored(sortScored(SubSeq(s, 1, Len(s) - 1)), s[Len(s)])

\* AI::orderMoves: the vector afterwards
orderMoves(a, moves, g, ttMove, ply) ==
  LET scored == [i \in 1..Len(moves) |-> <<scoreMove(a, moves[i], g, ttMove, ply), moves[i]>>]
      sorted == sortScored(scored)
  IN [i \in 1..Len(moves) |-> sorted[i][2]]

\* AI::checkTime; up says that now - startTime >= timeLimitMs
checkTime(a, up) == IF a.timeLimitMs <= 0 THEN FALSE ELSE up

\* the two mate adjustments alphaBeta makes to a score read from the table
fromTTScore(s, ply) ==
  LET s1 == IF s > MATE_SCORE - 1000 THEN s - ply ELSE s
  IN IF s1 < -MATE_SCORE + 1000 THEN s1 + ply ELSE s1

\* and the two it makes to the score it stores
toTTScore(s, ply) ==
  LET s1 == IF s > MATE_SCORE - 1000 THEN s + ply ELSE s
  IN IF s1 < -MATE_SCORE + 1000 THEN s1 - ply ELSE s1

(***************************************************************************)
(* The thread that runs AI::search.  Its state is the record th:           *)
(*   pc          where it is in search / alphaBeta / quiescence            *)
(*   stack       the active frames of alphaBeta and quiescence, the        *)
(*               innermost last                                            *)
(*   ret         the value the call that returned last returned            *)
(*   info, rootMoves, pvLines, depth, rootScores, alpha, beta, i, tempPV   *)
(*               the locals of search (i counts from 0 as in the code)     *)
(* A frame holds the parameters and locals of one call: fn, depth, alpha,  *)
(* beta, ply, pv (the PVLine the caller passed), hash, moves, i,           *)
(* bestScore, bestMove, ttFlag, childPV.  A step of the thread runs from   *)
(* one read of shouldStop or of the clock to just before the next, so      *)
(* that stopSearch() and the deadline can fall between any two reads.      *)
(* Each step operator gives [ai, th, game] after the step.                 *)
(***************************************************************************)
IdleThread ==
  [pc |-> "idle", stack |-> <<>>, ret |-> 0, info |-> ZeroInfo,
   rootMoves |-> <<>>, pvLines |-> <<>>, depth |-> 0, rootScores |-> <<>>,
   alpha |-> 0, beta |-> 0, i |-> 0, tempPV |-> ZeroPV]

Frame(fn, depth, alpha, beta, ply) ==
  [fn |-> fn, depth |-> depth, alpha |-> alpha, beta |-> beta, ply |-> ply,
   pv |-> ZeroPV, hash |-> ZeroHash, moves |-> <<>>, i |-> 0,
   bestScore |-> -INFINITY_SCORE, bestMove |-> NullMove, ttFlag |-> TT_ALPHA,
   childPV |-> ZeroPV]

Top(t) == t.stack[Len(t.stack)]

SetTop(t, f) == [t EXCEPT !.stack[Len(t.stack)] = f]

At(t, label) == [t EXCEPT !.pc = label]

Min(a, b) == IF a < b THEN a ELSE b

\* a call of alphaBeta or quiescence: control is at the callee's first line
Call(t, f) ==
  [t EXCEPT !.stack = Append(@, f),
            !.pc = IF f.fn = "alphaBeta" THEN "abEntry" ELSE "qsEntry"]

\* the innermost call returns value: its caller goes on after the call, with
\* the PVLine it passed as the callee left it.  An alphaBeta leaf that called
\* quiescence returns what quiescence returned.
RECURSIVE Return(_, _)
Return(t, value) ==
  LET top == Top(t)
      rest == SubSeq(t.stack, 1, Len(t.stack) - 1)
  IN IF rest = <<>>
     THEN [t EXCEPT !.stack = rest, !.ret = value, !.tempPV = top.pv,
                    !.pc = "rootAfterChild"]
     ELSE IF top.fn = "quiescence" /\ rest[Len(rest)].fn = "alphaBeta"
     THEN Return([t EXCEPT !.stack = rest], value)
     ELSE IF top.fn = "quiescence"
     THEN [t EXCEPT !.stack = rest, !.ret = value, !.pc = "qsAfterChild"]
     ELSE [t EXCEPT !.stack = [rest EXCEPT ![Len(rest)].childPV = top.pv],
                    !.ret = value, !.pc = "abAfterChild"]

\* updateKillers that pushes the move although slot 0 holds it already
updateKillers_NoSameTest(a, move, ply) ==
  IF ~isCapture(move) /\ ply < 128
  THEN [a EXCEPT !.killers = (ply :> <<move, killersAt(a, ply)[1]>>) @@ @]
  ELSE a

updateKillers(a, move, ply) ==
  IF ~isCapture(move) /\ ply < 128 /\ killersAt(a, ply)[1] # move
  THEN [a EXCEPT !.killers = (ply :> <<move, killersAt(a, ply)[1]>>) @@ @]
  ELSE a

updateHistory(a, move, depth) ==
  IF ~isCapture(move)
  THEN [a EXCEPT !.history =
          (<<from(move), to(move)>> :>
             (historyAt(a, from(move), to(move)) + depth * depth)) @@ @]
  ELSE a

\* alphaBeta from its first line to the move loop
abEntry(a, t, g, up) ==
  LET f == [Top(t) EXCEPT !.pv = ZeroPV]
      t0 == SetTop(t, f)
  IN IF a.shouldStop \/ checkTime(a, up)
     THEN [ai |-> [a EXCEPT !.shouldStop = TRUE], th |-> Return(t0, 0), game |-> g]
     ELSE
       LET a1 == [a EXCEPT !.nodes = @ + 1,
                           !.selDepth = IF f.ply > @ THEN f.ply ELSE @]
           result == getResult(g)
           hash == g.hash
           probe == probeTT(a1, hash)
           a2 == probe.ai
           valid == probe.hit /\ entryIsValid(probe.entry, hash, f.depth)
           ttScore == fromTTScore(probe.entry.score, f.ply)
           ttMove == IF probe.hit THEN probe.entry.bestMove ELSE NullMove
           moves == generateLegalMoves(g)
       IN IF result # "ONGOING"
          THEN [ai |-> a1,
                th |-> Return(t0, IF result = "DRAW_STALEMATE" THEN 0
                                  ELSE -MATE_SCORE + f.ply),
                game |-> g]
          ELSE IF valid /\ probe.entry.flag = TT_EXACT
          THEN [ai |-> a2,
                th |-> Return(SetTop(t, [f EXCEPT !.pv.moves = <<probe.entry.bestMove>>,
                                                  !.pv.score = ttScore]),
                              ttScore),
                game |-> g]
          ELSE IF valid /\ probe.entry.flag = TT_BETA /\ ttScore >= f.beta
          THEN [ai |-> a2, th |-> Return(t0, ttScore), game |-> g]
          ELSE IF valid /\ probe.entry.flag = TT_ALPHA /\ ttScore <= f.alpha
          THEN [ai |-> a2, th |-> Return(t0, ttScore), game |-> g]
          ELSE IF f.depth <= 0
          THEN [ai |-> a2,
                th |-> Call(t0, Frame("quiescence", 0, f.alpha, f.beta, f.ply)),
                game |-> g]
          ELSE IF moves = <<>>
          THEN [ai |-> a2, th |-> Return(t0, 0), game |-> g]
          ELSE [ai |-> a2,
                th |-> At(SetTop(t, [f EXCEPT
                                       !.hash = hash,
                                       !.moves = orderMoves(a2, moves, g, ttMove, f.ply),
                                       !.i = 0]),
                          "abLoop"),
                game |-> g]

\* alphaBeta after its move loop: the store and the return
abFinish(a, t, g) ==
  LET f == Top(t)
  IN [ai |-> storeTT(a, f.hash, toTTScore(f.bestScore, f.ply), f.depth,
                     f.ttFlag, f.bestMove),
      th |-> Return(t, f.bestScore),
      game |-> g]

\* the head of alphaBeta's move loop up to the recursive call
abLoop(a, t, g, up) ==
  LET f == Top(t)
  IN IF f.i >= Len(f.moves) THEN abFinish(a, t, g)
     ELSE IF a.shouldStop \/ (f.i % 4 = 0 /\ checkTime(a, up))
     THEN [ai |-> [a EXCEPT !.shouldStop = TRUE], th |-> Return(t, 0), game |-> g]
     ELSE [ai |-> a,
           th |-> Call(t, Frame("alphaBeta", f.depth - 1, -f.beta, -f.alpha, f.ply + 1)),
           game |-> makeMove(g, f.moves[f.i + 1]).game]

\* abAfterChild that leaves the tag TT_EXACT on a cutoff
abAfterChild_ExactOnCutoff(a, t, g) ==
  LET f == Top(t)
      move == f.moves[f.i + 1]
      score == -t.ret
      g1 == unmakeMove(g).game
      next(fx) ==
        [ai |-> a, th |-> At(SetTop(t, [fx EXCEPT !.i = @ + 1]), "abLoop"), game |-> g1]
      f1 == [f EXCEPT !.bestScore = score, !.bestMove = move]
      f2 == [f1 EXCEPT !.alpha = score, !.ttFlag = TT_EXACT,
                       !.pv.moves = <<move>> \o f.childPV.moves,
                       !.pv.score = score]
  IN IF a.shouldStop THEN [ai |-> a, th |-> Return(t, 0), game |-> g1]
     ELSE IF score <= f.bestScore THEN next(f)
     ELSE IF score <= f.alpha THEN next(f1)
     ELSE IF score < f.beta THEN next(f2)
     ELSE abFinish(updateHistory(updateKillers(a, move, f.ply), move, f.depth),
                   SetTop(t, f2), g1)

\* abAfterChild without the test of shouldStop after unmakeMove
abAfterChild_NoStopTest(a, t, g) ==
  LET f == Top(t)
      move == f.moves[f.i + 1]
      score == -t.ret
      g1 == unmakeMove(g).game
      next(fx) ==
        [ai |-> a, th |-> At(SetTop(t, [fx EXCEPT !.i = @ + 1]), "abLoop"), game |-> g1]
      f1 == [f EXCEPT !.bestScore = score, !.bestMove = move]
      f2 == [f1 EXCEPT !.alpha = score, !.ttFlag = TT_EXACT,
                       !.pv.moves = <<move>> \o f.childPV.moves,
                       !.pv.score = score]
      f3 == [f2 EXCEPT !.ttFlag = TT_BETA]
  IN IF score <= f.bestScore THEN next(f)
     ELSE IF score <= f.alpha THEN next(f1)
     ELSE IF score < f.beta THEN next(f2)
     ELSE abFinish(updateHistory(updateKillers(a, move, f.ply), move, f.depth),
                   SetTop(t, f3), g1)

\* the rest of the loop body after the recursive call returned
abAfterChild(a, t, g) ==
  LET f == Top(t)
      move == f.moves[f.i + 1]
      score == -t.ret
      g1 == unmakeMove(g).game
      next(fx) ==
        [ai |-> a, th |-> At(SetTop(t, [fx EXCEPT !.i = @ + 1]), "abLoop"), game |-> g1]
      f1 == [f EXCEPT !.bestScore = score, !.bestMove = move]
      f2 == [f1 EXCEPT !.alpha = score, !.ttFlag = TT_EXACT,
                       !.pv.moves = <<move>> \o f.childPV.moves,
                       !.pv.score = score]
      f3 == [f2 EXCEPT !.ttFlag = TT_BETA]
  IN IF a.shouldStop THEN [ai |-> a, th |-> Return(t, 0), game |-> g1]
     ELSE IF score <= f.bestScore THEN next(f)
     ELSE IF score <= f.alpha THEN next(f1)
     ELSE IF score < f.beta THEN next(f2)
     ELSE abFinish(updateHistory(updateKillers(a, move, f.ply), move, f.depth),
                   SetTop(t, f3), g1)

\* qsEntry without the test of shouldStop in its first line
qsEntry_NoStopTest(a, t, g) ==
  LET f == Top(t)
      a1 == [a EXCEPT !.nodes = @ + 1]
      result == getResult(g)
      standPat == IF g.sideToMove = BLACK THEN -evaluate(g) ELSE evaluate(g)
      moves == generateLegalMoves(g)
      tactical(m) == isCapture(m) \/ (g.sideToMove = WHITE /\ to(m) >= A8)
      captures == SelectSeq(moves, tactical)
  IN IF result # "ONGOING"
     THEN [ai |-> a1,
           th |-> Return(t, IF result = "DRAW_STALEMATE" THEN 0
                            ELSE -MATE_SCORE + f.ply),
           game |-> g]
     ELSE IF standPat >= f.beta THEN [ai |-> a1, th |-> Return(t, f.beta), game |-> g]
     ELSE IF captures = <<>> THEN [ai |-> a1, th |-> Return(t, standPat), game |-> g]
     ELSE [ai |-> a1,
           th |-> At(SetTop(t, [f EXCEPT
                                  !.alpha = IF standPat > @ THEN standPat ELSE @,
                                  !.moves = orderMoves(a1, captures, g, NullMove, f.ply),
                                  !.i = 0]),
                     "qsLoop"),
           game |-> g]

\* qsEntry that searches every legal move, not only the tactical ones
qsEntry_EveryMove(a, t, g) ==
  LET f == Top(t)
      a1 == [a EXCEPT !.nodes = @ + 1]
      result == getResult(g)
      standPat == IF g.sideToMove = BLACK THEN -evaluate(g) ELSE evaluate(g)
      captures == generateLegalMoves(g)
  IN IF a.shouldStop THEN [ai |-> a, th |-> Return(t, 0), game |-> g]
     ELSE IF result # "ONGOING"
     THEN [ai |-> a1,
           th |-> Return(t, IF result = "DRAW_STALEMATE" THEN 0
                            ELSE -MATE_SCORE + f.ply),
           game |-> g]
     ELSE IF standPat >= f.beta THEN [ai |-> a1, th |-> Return(t, f.beta), game |-> g]
     ELSE IF captures = <<>> THEN [ai |-> a1, th |-> Return(t, standPat), game |-> g]
     ELSE [ai |-> a1,
           th |-> At(SetTop(t, [f EXCEPT
                                  !.alpha = IF standPat > @ THEN standPat ELSE @,
                                  !.moves = orderMoves(a1, captures, g, NullMove, f.ply),
                                  !.i = 0]),
                     "qsLoop"),
           game |-> g]

\* quiescence from its first line to the capture loop
qsEntry(a, t, g) ==
  LET f == Top(t)
      a1 == [a EXCEPT !.nodes = @ + 1]
      result == getResult(g)
      standPat == IF g.sideToMove = BLACK THEN -evaluate(g) ELSE evaluate(g)
      moves == generateLegalMoves(g)
      tactical(m) == isCapture(m) \/ (g.sideToMove = WHITE /\ to(m) >= A8)
      captures == SelectSeq(moves, tactical)
  IN IF a.shouldStop THEN [ai |-> a, th |-> Return(t, 0), game |-> g]
     ELSE IF result # "ONGOING"
     THEN [ai |-> a1,
           th |-> Return(t, IF result = "DRAW_STALEMATE" THEN 0
                            ELSE -MATE_SCORE + f.ply),
           game |-> g]
     ELSE IF standPat >= f.beta THEN [ai |-> a1, th |-> Return(t, f.beta), game |-> g]
     ELSE IF captures = <<>> THEN [ai |-> a1, th |-> Return(t, standPat), game |-> g]
     ELSE [ai |-> a1,
           th |-> At(SetTop(t, [f EXCEPT
                                  !.alpha = IF standPat > @ THEN standPat ELSE @,
                                  !.moves = orderMoves(a1, captures, g, NullMove, f.ply),
                                  !.i = 0]),
                     "qsLoop"),
           game |-> g]

\* the head of quiescence's loop up to the recursive call
qsLoop(a, t, g) ==
  LET f == Top(t)
  IN IF f.i >= Len(f.moves) THEN [ai |-> a, th |-> Return(t, f.alpha), game |-> g]
     ELSE [ai |-> a,
           th |-> Call(t, Frame("quiescence", 0, -f.beta, -f.alpha, f.ply + 1)),
           game |-> makeMove(g, f.moves[f.i + 1]).game]

\* qsAfterChild with the stop test made before unmakeMove
qsAfterChild_StopBeforeUnmake(a, t, g) ==
  IF a.shouldStop THEN [ai |-> a, th |-> Return(t, 0), game |-> g]
  ELSE
    LET f == Top(t)
        score == -t.ret
        g1 == unmakeMove(g).game
    IN IF score >= f.beta THEN [ai |-> a, th |-> Return(t, f.beta), game |-> g1]
       ELSE [ai |-> a,
             th |-> At(SetTop(t, [f EXCEPT !.alpha = IF score > @ THEN score ELSE @,
                                           !.i = @ + 1]),
                       "qsLoop"),
             game |-> g1]

\* the rest of the loop body after the recursive call returned
qsAfterChild(a, t, g) ==
  LET f == Top(t)
      score == -t.ret
      g1 == unmakeMove(g).game
  IN IF a.shouldStop THEN [ai |-> a, th |-> Return(t, 0), game |-> g1]
     ELSE IF score >= f.beta THEN [ai |-> a, th |-> Return(t, f.beta), game |-> g1]
     ELSE [ai |-> a,
           th |-> At(SetTop(t, [f EXCEPT !.alpha = IF score > @ THEN score ELSE @,
                                         !.i = @ + 1]),
                     "qsLoop"),
           game |-> g1]

\* the loop at "Follow TT to build PV": [ai, moves] after it
RECURSIVE followTT(_, _, _, _, _)
followTT(a, tempGame, j, depth, moves) ==
  IF j < depth - 1 /\ ~isGameOver(tempGame)
  THEN LET probe == probeTT(a, tempGame.hash)
           bestMove == probe.entry.bestMove
       IN IF probe.hit /\ isValid(bestMove) /\ isLegalMove(tempGame, bestMove)
          THEN followTT(probe.ai, makeMove(tempGame, bestMove).game, j + 1, depth,
                        Append(moves, bestMove))
          ELSE [ai |-> probe.ai, moves |-> moves]
  ELSE [ai |-> a, moves |-> moves]

\* std::min((size_t)multiPV, n)
lineCount(a, n) == IF a.multiPV < 0 THEN n ELSE Min(a.multiPV, n)

\* the loop "Build MultiPV lines" from index i on: [ai, lines] after it
RECURSIVE buildLines(_, _, _, _, _, _)
buildLines(a, g, rootScores, i, depth, lines) ==
  IF i < lineCount(a, Len(rootScores))
  THEN LET rootMove == rootScores[i + 1][2]
           tempGame == makeMove(g, rootMove)
           rest == followTT(a, tempGame.game, 0, depth, <<rootMove>>)
       IN IF ~isValid(rootMove) \/ ~tempGame.ok
          THEN buildLines(a, g, rootScores, i + 1, depth, lines)
          ELSE buildLines(rest.ai, g, rootScores, i + 1, depth,
                          Append(lines, [moves |-> rest.moves,
                                         score |-> rootScores[i + 1][1],
                                         depth |-> depth]))
  ELSE [ai |-> a, lines |-> lines]

\* SearchInfo::isMate
isMate(info) == info.score > 90000 \/ info.score < -90000

\* search from "searching = true" on return: the first statement only
searchBegin(a, t, g) ==
  [ai |-> [a EXCEPT !.searching = TRUE], th |-> At(IdleThread, "searchInit"), game |-> g]

\* searchInit that begins the iterations at depth 0
searchInit_DepthFromZero(a, t, g) ==
  LET rootMoves == generateLegalMoves(g)
  IN [ai |-> [a EXCEPT !.shouldStop = FALSE, !.nodes = 0, !.ttHits = 0,
                       !.selDepth = 0, !.ttAge = toUint8(@ + 1)],
      th |-> IF rootMoves = <<>>
             THEN [t EXCEPT !.info = ZeroInfo, !.rootMoves = rootMoves,
                            !.pc = "searchReturn"]
             ELSE [t EXCEPT !.info = ZeroInfo, !.rootMoves = rootMoves,
                            !.pvLines = [k \in 1..Min(a.multiPV, Len(rootMoves)) |-> ZeroPV],
                            !.depth = 0,
                            !.pc = "iterCheck"],
      game |-> g]

\* search from "shouldStop = false" to the iteration loop
searchInit(a, t, g) ==
  LET rootMoves == generateLegalMoves(g)
  IN [ai |-> [a EXCEPT !.shouldStop = FALSE, !.nodes = 0, !.ttHits = 0,
                       !.selDepth = 0, !.ttAge = toUint8(@ + 1)],
      th |-> IF rootMoves = <<>>
             THEN [t EXCEPT !.info = ZeroInfo, !.rootMoves = rootMoves,
                            !.pc = "searchReturn"]
             ELSE [t EXCEPT !.info = ZeroInfo, !.rootMoves = rootMoves,
                            !.pvLines = [k \in 1..Min(a.multiPV, Len(rootMoves)) |-> ZeroPV],
                            !.depth = 1,
                            !.pc = "iterCheck"],
      game |-> g]

\* iterCheck that stops one iteration short of maxDepth
iterCheck_BelowMaxDepth(a, t, g) ==
  IF t.depth < a.maxDepth /\ ~a.shouldStop
  THEN [ai |-> [a EXCEPT !.selDepth = 0],
        th |-> [t EXCEPT !.rootScores = <<>>,
                         !.tempPV = ZeroPV,
                         !.alpha = -INFINITY_SCORE,
                         !.beta = INFINITY_SCORE,
                         !.rootMoves =
                           orderMoves(a, @, g,
                                      IF t.pvLines[1].moves = <<>> THEN NullMove
                                      ELSE t.pvLines[1].moves[1],
                                      0),
                         !.i = 0,
                         !.pc = "rootCheck"],
        game |-> g]
  ELSE [ai |-> a, th |-> At(t, "searchReturn"), game |-> g]

\* the test of the iteration loop and the loop body up to the root loop
iterCheck(a, t, g) ==
  IF t.depth <= a.maxDepth /\ ~a.shouldStop
  THEN [ai |-> [a EXCEPT !.selDepth = 0],
        th |-> [t EXCEPT !.rootScores = <<>>,
                         !.tempPV = ZeroPV,
                         !.alpha = -INFINITY_SCORE,
                         !.beta = INFINITY_SCORE,
                         !.rootMoves =
                           orderMoves(a, @, g,
                                      IF t.pvLines[1].moves = <<>> THEN NullMove
                                      ELSE t.pvLines[1].moves[1],
                                      0),
                         !.i = 0,
                         !.pc = "rootCheck"],
        game |-> g]
  ELSE [ai |-> a, th |-> At(t, "searchReturn"), game |-> g]

\* the test of the root loop and its body up to the call of alphaBeta
rootCheck(a, t, g) ==
  IF t.i < Len(t.rootMoves) /\ ~a.shouldStop
  THEN [ai |-> a,
        th |-> Call(t, Frame("alphaBeta", t.depth - 1, -t.beta, -t.alpha, 1)),
        game |-> makeMove(g, t.rootMoves[t.i + 1]).game]
  ELSE [ai |-> a, th |-> At(t, "afterRoot"), game |-> g]

\* the rest of the root loop's body after alphaBeta returned
rootAfterChild(a, t, g) ==
  LET move == t.rootMoves[t.i + 1]
      score == -t.ret
      g1 == unmakeMove(g).game
      t1 == [t EXCEPT !.i = @ + 1, !.pc = "rootCheck"]
  IN IF a.shouldStop THEN [ai |-> a, th |-> t1, game |-> g1]
     ELSE [ai |-> IF score > t.alpha THEN [a EXCEPT !.bestMoveFound = move] ELSE a,
           th |-> [t1 EXCEPT !.rootScores = Append(@, <<score, move>>),
                             !.alpha = IF score > @ THEN score ELSE @],
           game |-> g1]

\* the SearchInfo of a finished iteration: scores from White's perspective
reportInfo(t, g, a1, pvLines) ==
  [depth |-> t.depth,
   selDepth |-> a1.selDepth,
   score |-> IF g.sideToMove = WHITE THEN pvLines[1].score ELSE -pvLines[1].score,
   nodes |-> a1.nodes,
   pvLines |-> [k \in 1..Len(pvLines) |->
                  [pvLines[k] EXCEPT !.score = IF g.sideToMove = BLACK THEN -@ ELSE @]]]

\* reportBuilt that takes the first root move for the best move
reportBuilt_FirstRootMove(t, g, sorted, a1, pvLines) ==
  IF pvLines = <<>> \/ pvLines[1].moves = <<>>
  THEN [ai |-> a1,
        th |-> [t EXCEPT !.rootScores = sorted, !.pvLines = pvLines,
                         !.depth = @ + 1, !.pc = "iterCheck"],
        game |-> g]
  ELSE [ai |-> [a1 EXCEPT !.bestMoveFound = t.rootMoves[1]],
        th |-> [t EXCEPT !.rootScores = sorted, !.pvLines = pvLines,
                         !.info = reportInfo(t, g, a1, pvLines), !.pc = "callback"],
        game |-> g]

\* the rest of the iteration once the lines are built: pvLines = built.lines,
\* and the counters of built.ai are the ones the SearchInfo reads
reportBuilt(t, g, sorted, a1, pvLines) ==
  IF pvLines = <<>> \/ pvLines[1].moves = <<>>
  THEN [ai |-> a1,
        th |-> [t EXCEPT !.rootScores = sorted, !.pvLines = pvLines,
                         !.depth = @ + 1, !.pc = "iterCheck"],
        game |-> g]
  ELSE [ai |-> [a1 EXCEPT !.bestMoveFound =
                  IF pvLines[1].moves = <<>> THEN t.rootMoves[1]
                  ELSE pvLines[1].moves[1]],
        th |-> [t EXCEPT !.rootScores = sorted, !.pvLines = pvLines,
                         !.info = reportInfo(t, g, a1, pvLines), !.pc = "callback"],
        game |-> g]

\* the iteration after the loop "Build MultiPV lines" left built = [ai, lines]
reportSorted(a, t, g, sorted, built) ==
  reportBuilt(t, g, sorted, built.ai, built.lines)

\* the iteration after std::sort left the root scores sorted
reportLines(a, t, g, sorted) ==
  reportSorted(a, t, g, sorted, buildLines(a, g, sorted, 0, t.depth, <<>>))

\* from "Sort root moves by score" to just before the callback is called;
\* "continue" leads to depth++ and the test of the iteration loop
report(a, t, g) == reportLines(a, t, g, sortScored(t.rootScores))

\* after the root loop: the break of a stopped iteration, or the report
afterRoot(a, t, g) ==
  IF a.shouldStop /\ t.depth > 1
  THEN [ai |-> a, th |-> At(t, "searchReturn"), game |-> g]
  ELSE report(a, t, g)

\* the call of the callback (if one is set) and the rest of the iteration
afterReport(a, t, g) ==
  IF (t.info.score > MATE_SCORE - 1000 \/ t.info.score < -MATE_SCORE + 1000)
       /\ t.depth >= 10 /\ isMate(t.info)
  THEN [ai |-> a, th |-> At(t, "searchReturn"), game |-> g]
  ELSE [ai |-> a, th |-> [t EXCEPT !.depth = @ + 1, !.pc = "iterCheck"], game |-> g]

\* searchReturn without "searching = false"
searchReturn_StillSearching(a, t, g) ==
  [ai |-> a, th |-> At(t, "done"), game |-> g]

\* "searching = false; return info;"
searchReturn(a, t, g) ==
  [ai |-> [a EXCEPT !.searching = FALSE], th |-> At(t, "done"), game |-> g]

(***************************************************************************)
(* The state: one Game object and what the last call on it was and         *)
(* returned; one AI object, the thread searching with it, and the clock.   *)
(***************************************************************************)
VARIABLES
  game,      \* the Game object
  lastCall,  \* [op, ret]: the last member function called and its result
  origin,    \* which call last established the position:
             \* "constructed", "setPosition" or "reset"
  made,      \* how many times makeMove has succeeded on the object
  ai,        \* the AI object
  th,        \* the thread running search(game)
  timeUp,    \* now - startTime >= timeLimitMs
  gh,        \* what happened in the search under way (see NoGhost)
  tg         \* what was stored in the transposition table (see NoTable)

vars == <<game, lastCall, origin, made, ai, th, timeUp, gh, tg>>

searchVars == <<ai, th, timeUp, gh, tg>>

\* gh before search is called:
\*   searches       how many times search was called
\*   entry          the Game as it was when search was called
\*   makes, unmakes the successful makeMove and unmakeMove calls of the search
\*   calls          the calls of alphaBeta and quiescence
\*   callbacks      the SearchInfo values the callback was called with
\*   stopRequested  stopSearch() was called while isSearching() was true
\*   stopEarly      ... and search had not yet cleared shouldStop
\*   stopObserved   the search read shouldStop as true, or saw the deadline
\*   stopDepth      the depth of the iteration under way when it first did
\*   lastComplete   the report of the last iteration that searched every
\*                  root move to completion
\*   previous       the SearchInfo the search before this one returned, if
\*                  nothing stopped it
\*   previousBest   getBestMove() after that search
NoGhost ==
  [searches |-> 0, entry |-> NewGame, makes |-> 0, unmakes |-> 0, calls |-> 0,
   callbacks |-> <<>>, stopRequested |-> FALSE, stopEarly |-> FALSE, stopObserved |-> FALSE,
   stopDepth |-> 0, lastComplete |-> ZeroInfo,
   previous |-> ZeroInfo, previousBest |-> NullMove]

\* tg before anything is stored (kept by the table actions below, which call
\* storeTT and probeTT as a node of alphaBeta does):
\*   generation  the search invocations since construction or the last clear
\*   searches    the calls of search() made by the table actions
\*   held        slot -> the call of storeTT that wrote the entry the slot
\*               holds: [hash, score, ply, generation], score being the
\*               node's score and ply the node's ply
\*   last        slot -> the last call of storeTT made to the slot:
\*               [hash, depth, flag, bestMove, generation, covered, displaced]
\*               covered: depth was at least the depth of any entry with
\*               the same fingerprint already in the slot
\*               displaced: the slot held another fingerprint's entry
\*   before      transTable before the last call of storeTT
NoTable ==
  [generation |-> 0, searches |-> 0, held |-> [x \in {} |-> 0], last |-> [x \in {} |-> 0],
   before |-> [x \in {} |-> 0]]

\* no search is under way
NoSearch ==
  /\ ai = NewAI
  /\ th = IdleThread
  /\ timeUp = FALSE
  /\ gh = NoGhost
  /\ tg = NoTable

SeqToSet(s) == {s[i] : i \in 1..Len(s)}

(***************************************************************************)
(* Inputs.  The positions whose queries are checked: (pawn set, queen set, *)
(* side) with disjoint sets and at most one queen.                         *)
(***************************************************************************)
PawnPool == {1, 8, 9, 15, 16, 18, 27, 36, 49, 56}

QueenPool == {0, 16, 17, 23, 24, 27, 58, 63}

PositionInputs ==
  {<<p, q, side>> \in (SUBSET PawnPool) \X ({{}} \cup {{sq} : sq \in QueenPool})
                        \X {WHITE, BLACK} :
     Cardinality(p) <= MaxSetPawns /\ p \cap q = {}}

\* the positions setPosition is called with in the middle of play
SetupInputs ==
  { <<{8, 9}, {16}, WHITE>>, <<{48}, {57}, WHITE>>, <<{8}, {17}, BLACK>>,
    <<{16}, {23}, WHITE>>, <<{15}, {24}, BLACK>>, <<{}, {}, WHITE>>,
    <<{56}, {}, BLACK>>, <<{}, {27}, BLACK>> }

\* makeMove is called with legal moves onto these squares (files a and b,
\* and d2, where the queen can capture on her first move)
PlaySquares == {sq \in Squares : fileOf(sq) <= 1} \cup {11}

\* the moves makeMove is called with: the legal ones, each of them with
\* another flag value, the null move, and a few moves between fixed squares
MoveInputs(g) ==
  LET legal == {m \in SeqToSet(generateLegalMoves(g)) : to(m) \in PlaySquares}
  IN legal
    \cup {Move(from(m), to(m), fl) :
            m \in legal, fl \in {QUIET, DOUBLE_PUSH, CAPTURE}}
    \cup {NullMove, Move(8, 0, QUIET), Move(8, 9, CAPTURE), Move(59, 8, CAPTURE)}

Init ==
  /\ game = NewGame
  /\ lastCall = [op |-> "Game", ret |-> TRUE]
  /\ origin = "constructed"
  /\ made = 0
  /\ NoSearch

SetPosition(p, q, side) ==
  /\ game' = setPosition(game, p, q, side)
  /\ lastCall' = [op |-> "setPosition", ret |-> TRUE]
  /\ origin' = "setPosition"
  /\ UNCHANGED <<made, searchVars>>

Reset ==
  /\ game' = reset(game)
  /\ lastCall' = [op |-> "reset", ret |-> TRUE]
  /\ origin' = "reset"
  /\ UNCHANGED <<made, searchVars>>

MakeMove(m) ==
  /\ made < MaxMoves
  /\ LET r == makeMove(game, m)
     IN /\ game' = r.game
        /\ lastCall' = [op |-> "makeMove", ret |-> r.ok]
        /\ made' = IF r.ok THEN made + 1 ELSE made
  /\ UNCHANGED <<origin, searchVars>>

UnmakeMove ==
  /\ LET r == unmakeMove(game)
     IN /\ game' = r.game
        /\ lastCall' = [op |-> "unmakeMove", ret |-> r.ok]
  /\ UNCHANGED <<origin, made, searchVars>>

GetResult ==
  /\ lastCall' = [op |-> "getResult", ret |-> getResult(game)]
  /\ UNCHANGED <<game, origin, made, searchVars>>

GenerateLegalMoves ==
  /\ lastCall' = [op |-> "generateLegalMoves", ret |-> generateLegalMoves(game)]
  /\ UNCHANGED <<game, origin, made, searchVars>>

Next ==
  \/ \E pos \in SetupInputs : SetPosition(pos[1], pos[2], pos[3])
  \/ Reset
  \/ \E m \in MoveInputs(game) : MakeMove(m)
  \/ UnmakeMove

Spec == Init /\ [][Next]_vars

PosInit ==
  /\ \E pos \in PositionInputs : game = setPosition(NewGame, pos[1], pos[2], pos[3])
  /\ lastCall = [op |-> "setPosition", ret |-> TRUE]
  /\ origin = "setPosition"
  /\ made = 0
  /\ NoSearch

\* the moves moveToAlgebraic is called with: the legal moves of the position
AlgebraicMoveInputs(g) == SeqToSet(generateLegalMoves(g))

\* the strings algebraicToMove is called with: the text of every legal move,
\* "a2", "a9a1", "i2i3" and "a2a4q"
AlgebraicTextInputs(g) ==
  {moveToAlgebraic(m) : m \in AlgebraicMoveInputs(g)}
    \cup { <<97, 50>>, <<97, 57, 97, 49>>, <<105, 50, 105, 51>>,
           <<97, 50, 97, 52, 113>> }

MoveToAlgebraic(m) ==
  /\ lastCall' = [op |-> "moveToAlgebraic", arg |-> m, ret |-> moveToAlgebraic(m)]
  /\ UNCHANGED <<game, origin, made, searchVars>>

AlgebraicToMove(str) ==
  /\ lastCall' = [op |-> "algebraicToMove", arg |-> str,
                  ret |-> algebraicToMove(game, str)]
  /\ UNCHANGED <<game, origin, made, searchVars>>

PosNext ==
  \/ GetResult
  \/ GenerateLegalMoves
  \/ \E m \in AlgebraicMoveInputs(game) : MoveToAlgebraic(m)
  \/ \E str \in AlgebraicTextInputs(game) : AlgebraicToMove(str)

PosSpec == PosInit /\ [][PosNext]_vars

(***************************************************************************)
(* The search engine as a state machine: one AI object, the thread that    *)
(* runs search(game) on the Game object, another thread that may call      *)
(* stopSearch() at any moment, and the clock reaching the deadline.        *)
(***************************************************************************)
\* search() is called at most this many times on one AI object
MaxSearches == 2

\* the positions and settings search() is called with: setPosition, then
\* setMaxDepth, setMultiPV, setTimeLimit and (callback) setCallback
SearchInputs ==
  { [pawns |-> {8, 9}, queen |-> {16}, side |-> WHITE,
     maxDepth |-> 2, multiPV |-> 2, timeLimitMs |-> 0, callback |-> TRUE],
    [pawns |-> {48}, queen |-> {3}, side |-> BLACK,
     maxDepth |-> 2, multiPV |-> 1, timeLimitMs |-> 50, callback |-> TRUE],
    [pawns |-> {16}, queen |-> {24}, side |-> WHITE,
     maxDepth |-> 2, multiPV |-> 3, timeLimitMs |-> 0, callback |-> TRUE],
    [pawns |-> {}, queen |-> {27}, side |-> WHITE,
     maxDepth |-> 2, multiPV |-> 3, timeLimitMs |-> 50, callback |-> TRUE],
    [pawns |-> {16}, queen |-> {}, side |-> BLACK,
     maxDepth |-> 1, multiPV |-> 1, timeLimitMs |-> 0, callback |-> FALSE],
    [pawns |-> {33, 40}, queen |-> {63}, side |-> WHITE,
     maxDepth |-> 3, multiPV |-> 2, timeLimitMs |-> 0, callback |-> FALSE] }

SearchSpecInit ==
  /\ \E c \in SearchInputs :
       /\ game = setPosition(NewGame, c.pawns, c.queen, c.side)
       /\ ai = [NewAI EXCEPT !.maxDepth = c.maxDepth,
                             !.multiPV = Min(c.multiPV, 10),
                             !.timeLimitMs = c.timeLimitMs,
                             !.callback = c.callback]
  /\ th = IdleThread
  /\ timeUp = FALSE
  /\ gh = NoGhost
  /\ tg = NoTable
  /\ lastCall = [op |-> "setPosition", ret |-> TRUE]
  /\ origin = "setPosition"
  /\ made = 0

\* a step of the searching thread to r = [ai, th, game]; reads says that the
\* step reads shouldStop
ThreadStep(r, reads) ==
  /\ ai' = r.ai
  /\ th' = r.th
  /\ game' = r.game
  /\ gh' = [gh EXCEPT
              !.makes = @ + (IF Len(r.game.moveHistory) > Len(game.moveHistory)
                             THEN 1 ELSE 0),
              !.unmakes = @ + (IF Len(r.game.moveHistory) < Len(game.moveHistory)
                               THEN 1 ELSE 0),
              !.calls = @ + (IF Len(r.th.stack) > Len(th.stack) THEN 1 ELSE 0),
              !.stopObserved = @ \/ (reads /\ r.ai.shouldStop),
              !.stopDepth = IF ~gh.stopObserved /\ reads /\ r.ai.shouldStop
                            THEN th.depth ELSE @]
  /\ UNCHANGED <<timeUp, lastCall, origin, made, tg>>

Search ==
  /\ th.pc \in {"idle", "done"}
  /\ gh.searches < MaxSearches
  /\ LET r == searchBegin(ai, th, game)
     IN ai' = r.ai /\ th' = r.th
  /\ gh' = [NoGhost EXCEPT !.entry = game, !.searches = gh.searches + 1,
                            !.previous =
                              IF gh.stopRequested \/ gh.stopObserved
                              THEN ZeroInfo ELSE th.info,
                            !.previousBest =
                              IF gh.stopRequested \/ gh.stopObserved
                              THEN NullMove ELSE ai.bestMoveFound]
  /\ UNCHANGED <<game, timeUp, lastCall, origin, made, tg>>

\* startTime is taken here: the deadline lies ahead again
SearchInit ==
  /\ th.pc = "searchInit"
  /\ LET r == searchInit(ai, th, game)
     IN ai' = r.ai /\ th' = r.th
  /\ timeUp' = FALSE
  /\ UNCHANGED <<game, gh, lastCall, origin, made, tg>>

IterCheck ==
  /\ th.pc = "iterCheck"
  /\ ThreadStep(iterCheck(ai, th, game), th.depth <= ai.maxDepth)

RootCheck ==
  /\ th.pc = "rootCheck"
  /\ ThreadStep(rootCheck(ai, th, game), th.i < Len(th.rootMoves))

AbEntry == th.pc = "abEntry" /\ ThreadStep(abEntry(ai, th, game, timeUp), TRUE)

AbLoop ==
  /\ th.pc = "abLoop"
  /\ ThreadStep(abLoop(ai, th, game, timeUp), Top(th).i < Len(Top(th).moves))

AbAfterChild == th.pc = "abAfterChild" /\ ThreadStep(abAfterChild(ai, th, game), TRUE)

QsEntry == th.pc = "qsEntry" /\ ThreadStep(qsEntry(ai, th, game), TRUE)

QsLoop == th.pc = "qsLoop" /\ ThreadStep(qsLoop(ai, th, game), FALSE)

QsAfterChild == th.pc = "qsAfterChild" /\ ThreadStep(qsAfterChild(ai, th, game), TRUE)

RootAfterChild ==
  th.pc = "rootAfterChild" /\ ThreadStep(rootAfterChild(ai, th, game), TRUE)

\* lastComplete keeps the report of the last iteration in which every root
\* move got its score
AfterRoot ==
  /\ th.pc = "afterRoot"
  /\ LET r == afterRoot(ai, th, game)
     IN /\ ai' = r.ai
        /\ th' = r.th
        /\ gh' = [gh EXCEPT
                    !.stopObserved = @ \/ ai.shouldStop,
                    !.stopDepth = IF ~gh.stopObserved /\ ai.shouldStop
                                  THEN th.depth ELSE @,
                    !.lastComplete =
                      IF Len(th.rootScores) = Len(th.rootMoves)
                      THEN report(ai, th, game).th.info ELSE @]
  /\ UNCHANGED <<game, timeUp, lastCall, origin, made, tg>>

Callback ==
  /\ th.pc = "callback"
  /\ LET r == afterReport(ai, th, game)
     IN ai' = r.ai /\ th' = r.th
  /\ gh' = [gh EXCEPT !.callbacks = IF ai.callback THEN Append(@, th.info) ELSE @]
  /\ UNCHANGED <<game, timeUp, lastCall, origin, made, tg>>

SearchReturn ==
  /\ th.pc = "searchReturn"
  /\ LET r == searchReturn(ai, th, game)
     IN ai' = r.ai /\ th' = r.th
  /\ UNCHANGED <<game, timeUp, gh, lastCall, origin, made, tg>>

\* AI::stopSearch, called by another thread
StopSearch ==
  /\ ~ai.shouldStop \/ (ai.searching /\ ~gh.stopRequested)
  /\ ai' = [ai EXCEPT !.shouldStop = TRUE]
  /\ gh' = [gh EXCEPT !.stopRequested = @ \/ ai.searching,
                      !.stopEarly = @ \/ (ai.searching /\ th.pc = "searchInit")]
  /\ UNCHANGED <<game, th, timeUp, lastCall, origin, made, tg>>

\* the clock reaches startTime + timeLimitMs
Deadline ==
  /\ ai.timeLimitMs > 0
  /\ th.pc \notin {"idle", "searchInit", "done"}
  /\ ~timeUp
  /\ timeUp' = TRUE
  /\ UNCHANGED <<game, ai, th, gh, lastCall, origin, made, tg>>

SearchNext ==
  \/ Search
  \/ SearchInit
  \/ IterCheck
  \/ RootCheck
  \/ AbEntry
  \/ AbLoop
  \/ AbAfterChild
  \/ QsEntry
  \/ QsLoop
  \/ QsAfterChild
  \/ RootAfterChild
  \/ AfterRoot
  \/ Callback
  \/ SearchReturn
  \/ StopSearch
  \/ Deadline

SearchSpec == SearchSpecInit /\ [][SearchNext]_vars

\* the steps of the thread that runs search(game)
SearchThread ==
  \/ SearchInit
  \/ IterCheck
  \/ RootCheck
  \/ AbEntry
  \/ AbLoop
  \/ AbAfterChild
  \/ QsEntry
  \/ QsLoop
  \/ QsAfterChild
  \/ RootAfterChild
  \/ AfterRoot
  \/ Callback
  \/ SearchReturn

\* The searching thread is a running thread of the process and is not held
\* back for ever: weak fairness of its steps, WF_vars(SearchThread).  The
\* thread can take a step exactly when it is neither idle nor done, and each
\* of its steps changes th, so the condition is written with that test in
\* the place of ENABLED <<SearchThread>>_vars.
SearchThreadFair ==
  []<>(th.pc \in {"idle", "done"}) \/ []<><<SearchThread>>_vars

\* the same machine with the searching thread scheduled
SearchFairSpec == SearchSpecInit /\ [][SearchNext]_vars /\ SearchThreadFair

(***************************************************************************)
(* The transposition table on its own: storeTT and probeTT called the way  *)
(* a node of alphaBeta calls them, search() starting a new generation, and *)
(* clearHash().  The engine starts after 0 or 254 searches of a position   *)
(* without legal moves (each of them increments ttAge and stores nothing). *)
(***************************************************************************)
\* search() is called at most this many times on top of the initial ones
MaxTTSearches == 3

\* a node reads the table at most this many times between two searches
MaxProbes == 2

\* the numbers of searches the engine has behind it at the start
TTStartSearches == {0, 254}

\* three fingerprints: the second and the third share a slot
TTHashes == {ZeroHash, <<5, 0, 0, 0>>, <<5, 0, 0, 9>>}

\* what a node stores: its fingerprint, bestScore, ply, depth, ttFlag, bestMove
TTStoreInputs ==
  { [hash |-> ZeroHash, score |-> 120, ply |-> 2, depth |-> 1,
     flag |-> TT_EXACT, bestMove |-> Move(8, 16, QUIET)],
    [hash |-> <<5, 0, 0, 0>>, score |-> 99997, ply |-> 2, depth |-> 2,
     flag |-> TT_BETA, bestMove |-> Move(9, 17, QUIET)],
    [hash |-> <<5, 0, 0, 9>>, score |-> -40, ply |-> 1, depth |-> 1,
     flag |-> TT_ALPHA, bestMove |-> Move(8, 16, QUIET)],
    [hash |-> <<5, 0, 0, 0>>, score |-> -40, ply |-> 3, depth |-> 1,
     flag |-> TT_EXACT, bestMove |-> Move(8, 16, QUIET)],
    [hash |-> <<5, 0, 0, 0>>, score |-> -99995, ply |-> 3, depth |-> 3,
     flag |-> TT_EXACT, bestMove |-> Move(9, 25, DOUBLE_PUSH)] }

\* what a node probes with: its fingerprint, its ply and its depth
TTProbeInputs ==
  { [hash |-> ZeroHash, ply |-> 2, depth |-> 0],
    [hash |-> <<5, 0, 0, 0>>, ply |-> 2, depth |-> 1],
    [hash |-> <<5, 0, 0, 0>>, ply |-> 4, depth |-> 1],
    [hash |-> <<5, 0, 0, 0>>, ply |-> 3, depth |-> 3],
    [hash |-> <<5, 0, 0, 9>>, ply |-> 1, depth |-> 1] }

\* AI::clearHash
clearHash(a) == [a EXCEPT !.transTable = [x \in {} |-> EmptyEntry], !.ttAge = 0]

\* AI::clearKillers
clearKillers(a) ==
  [a EXCEPT !.killers = [x \in {} |-> NoKillers], !.history = [x \in {} |-> 0]]

\* a position in which search() returns at once
NoMovesGame == setPosition(NewGame, {}, {}, WHITE)

\* search(game) on a position without legal moves, from call to return
searchNoMoves(a) ==
  LET r1 == searchBegin(a, IdleThread, NoMovesGame)
      r2 == searchInit(r1.ai, r1.th, NoMovesGame)
  IN searchReturn(r2.ai, r2.th, NoMovesGame).ai

TTSpecInit ==
  /\ \E n \in TTStartSearches :
       /\ ai = [NewAI EXCEPT !.ttAge = toUint8(n)]
       /\ tg = [NoTable EXCEPT !.generation = n]
  /\ game = NoMovesGame
  /\ th = IdleThread
  /\ timeUp = FALSE
  /\ gh = NoGhost
  /\ lastCall = [op |-> "setPosition", ret |-> TRUE]
  /\ origin = "setPosition"
  /\ made = 0

\* the end of alphaBeta: "Store in TT"
TTStore(c) ==
  /\ LET index == ttIndex(c.hash)
         old == ttSlot(ai, index)
         a1 == storeTT(ai, c.hash, toTTScore(c.score, c.ply), c.depth, c.flag,
                       c.bestMove)
         new == ttSlot(a1, index)
         written == /\ new.hash = c.hash /\ new.depth = c.depth
                    /\ new.flag = c.flag /\ new.bestMove = c.bestMove
                    /\ new.age = ai.ttAge
     IN /\ ai' = a1
        /\ tg' = [tg EXCEPT
                    !.before = ai.transTable,
                    !.held = IF written
                             THEN (index :> [hash |-> c.hash, score |-> c.score,
                                             ply |-> c.ply,
                                             generation |-> tg.generation]) @@ @
                             ELSE @,
                    !.last = (index :> [hash |-> c.hash, depth |-> c.depth,
                                        flag |-> c.flag, bestMove |-> c.bestMove,
                                        generation |-> tg.generation,
                                        covered |-> old.hash # c.hash
                                                      \/ c.depth >= old.depth,
                                        displaced |-> index \in DOMAIN ai.transTable
                                                        /\ old.hash # c.hash]) @@ @]
  /\ lastCall' = [op |-> "storeTT", ret |-> c]
  /\ UNCHANGED <<game, th, timeUp, gh, origin, made>>

\* the start of alphaBeta: "Probe transposition table" and the score read
\* from the entry if it is valid for the node's depth
TTProbe(c) ==
  /\ ai.ttHits < MaxProbes
  /\ LET probe == probeTT(ai, c.hash)
     IN /\ ai' = probe.ai
        /\ lastCall' =
             [op |-> "probeTT",
              ret |-> [hash |-> c.hash, ply |-> c.ply, hit |-> probe.hit,
                       entry |-> probe.entry,
                       valid |-> probe.hit
                                   /\ entryIsValid(probe.entry, c.hash, c.depth),
                       score |-> fromTTScore(probe.entry.score, c.ply)]]
  /\ UNCHANGED <<game, th, timeUp, gh, tg, origin, made>>

\* search(game) begins a generation
TTNewSearch ==
  /\ tg.searches < MaxTTSearches
  /\ ai' = searchNoMoves(ai)
  /\ tg' = [tg EXCEPT !.generation = @ + 1, !.searches = @ + 1]
  /\ lastCall' = [op |-> "search", ret |-> TRUE]
  /\ UNCHANGED <<game, th, timeUp, gh, origin, made>>

TTClear ==
  /\ ai' = clearHash(ai)
  /\ tg' = [NoTable EXCEPT !.searches = tg.searches]
  /\ lastCall' = [op |-> "clearHash", ret |-> TRUE]
  /\ UNCHANGED <<game, th, timeUp, gh, origin, made>>

TTNext ==
  \/ \E c \in TTStoreInputs : TTStore(c)
  \/ \E c \in TTProbeInputs : TTProbe(c)
  \/ TTNewSearch
  \/ TTClear

TTSpec == TTSpecInit /\ [][TTNext]_vars

(***************************************************************************)
(* Searches that nobody stops: no stopSearch() and no time limit, on       *)
(* larger positions and to greater depths.                                 *)
(***************************************************************************)
\* the positions and settings of these searches; the first is the initial
\* position, the last a game that a promotion has ended, with the queen to
\* move
RunInputs ==
  { [pawns |-> NewGame.pawns, queen |-> NewGame.queen, side |-> NewGame.sideToMove,
     maxDepth |-> 1, multiPV |-> 3, callback |-> TRUE],
    [pawns |-> {9, 48}, queen |-> {4}, side |-> WHITE,
     maxDepth |-> 3, multiPV |-> 3, callback |-> TRUE],
    [pawns |-> {48}, queen |-> {26}, side |-> WHITE,
     maxDepth |-> 11, multiPV |-> 1, callback |-> TRUE],
    [pawns |-> {9, 14}, queen |-> {26}, side |-> WHITE,
     maxDepth |-> 2, multiPV |-> 1, callback |-> TRUE],
    [pawns |-> {9}, queen |-> {1}, side |-> WHITE,
     maxDepth |-> 1, multiPV |-> 1, callback |-> TRUE],
    [pawns |-> {56}, queen |-> {26}, side |-> BLACK,
     maxDepth |-> 2, multiPV |-> 1, callback |-> TRUE] }

RunInit ==
  /\ \E c \in RunInputs :
       /\ game = setPosition(NewGame, c.pawns, c.queen, c.side)
       /\ ai = [NewAI EXCEPT !.maxDepth = c.maxDepth,
                             !.multiPV = Min(c.multiPV, 10),
                             !.timeLimitMs = 0,
                             !.callback = c.callback]
  /\ th = IdleThread
  /\ timeUp = FALSE
  /\ gh = NoGhost
  /\ tg = NoTable
  /\ lastCall = [op |-> "setPosition", ret |-> TRUE]
  /\ origin = "setPosition"
  /\ made = 0

RunNext ==
  \/ Search
  \/ SearchInit
  \/ IterCheck
  \/ RootCheck
  \/ AbEntry
  \/ AbLoop
  \/ AbAfterChild
  \/ QsEntry
  \/ QsLoop
  \/ QsAfterChild
  \/ RootAfterChild
  \/ AfterRoot
  \/ Callback
  \/ SearchReturn

RunSpec == RunInit /\ [][RunNext]_vars

\* the same searches with the searching thread scheduled (nothing else
\* runs here but the caller of search)
RunFairSpec == RunInit /\ [][RunNext]_vars /\ SearchThreadFair

(***************************************************************************)
(* Whole games: from the initial position both sides make legal moves      *)
(* until getResult() is no longer ONGOING.  The pawn side moves its most   *)
(* backward pawn that can move, or takes the queen; the queen goes to the  *)
(* highest square she can reach, or takes a pawn.                          *)
(***************************************************************************)
\* the queen takes at most this many pawns in a game
MaxPlayCaptures == 1

\* the files on which the double push is played
PlayDoubleFiles == {0, 1}

\* the moves makeMove is called with in position g
PlayMoves(g) ==
  LET legal == generateLegalMoves(g)
      quiet(m) == ~isCapture(m)
      quiets == SelectSeq(legal, quiet)
      captures == SelectSeq(legal, isCapture)
  IN IF legal = <<>> THEN {}
     ELSE IF g.sideToMove = WHITE
     THEN {m \in SeqToSet(legal) :
             \/ isCapture(m)
             \/ /\ from(m) = from(legal[1])
                /\ isDoublePush(m) => fileOf(from(m)) \in PlayDoubleFiles}
     ELSE (IF quiets = <<>> THEN {} ELSE {quiets[Len(quiets)]})
            \cup (IF captures # <<>>
                     /\ (quiets = <<>>
                           \/ popCount(NewGame.pawns) - popCount(g.pawns) < MaxPlayCaptures)
                  THEN {captures[1]} ELSE {})

PlayInit ==
  /\ game = NewGame
  /\ lastCall = [op |-> "Game", ret |-> TRUE]
  /\ origin = "constructed"
  /\ made = 0
  /\ NoSearch

\* makeMove, called while getResult() is ONGOING
PlayMove(m) ==
  /\ getResult(game) = "ONGOING"
  /\ LET r == makeMove(game, m)
     IN /\ game' = r.game
        /\ lastCall' = [op |-> "makeMove", ret |-> r.ok]
        /\ made' = IF r.ok THEN made + 1 ELSE made
  /\ UNCHANGED <<origin, searchVars>>

PlayNext == \E m \in PlayMoves(game) : PlayMove(m)

PlaySpec == PlayInit /\ [][PlayNext]_vars

(***************************************************************************)
(* Move ordering alone: orderMoves as the nodes of alphaBeta call it, on   *)
(* killer and history tables filled by the updates a cutoff makes.         *)
(***************************************************************************)
\* the largest history value the cutoffs of this specification build up
MaxHistory == 4

\* the positions whose moves are ordered: pawn b7 next to the queen on a8;
\* pawns a7 and b2; queen a3 before pawns a2 and b2; the initial position
OrderPositions ==
  { <<{49}, {56}, WHITE>>, <<{48, 9}, {4}, WHITE>>, <<{8, 9}, {16}, BLACK>>,
    <<RANK_2, {D8}, WHITE>> }

OrderPlies == {0, 1}

OrderDepths == {1, 2}

\* the moves that cause the cutoffs: the first two quiet moves generated
OrderCutoffMoves(g) ==
  LET quiet == SelectSeq(generateLegalMoves(g), LAMBDA x : ~isCapture(x))
  IN {quiet[i] : i \in 1..Min(2, Len(quiet))}

\* the cached best moves orderMoves is called with: none, each of the first
\* three moves generated, and the last
OrderTTMoves(g) ==
  LET moves == generateLegalMoves(g)
  IN {NullMove} \cup {moves[i] : i \in 1..Min(3, Len(moves))}
       \cup {moves[i] : i \in Len(moves)..Len(moves)}

OrderInit ==
  /\ \E pos \in OrderPositions : game = setPosition(NewGame, pos[1], pos[2], pos[3])
  /\ lastCall = [op |-> "setPosition", ret |-> TRUE]
  /\ origin = "setPosition"
  /\ made = 0
  /\ NoSearch

\* the cutoff branch of alphaBeta's move loop: "Update killer moves" and
\* "Update history"
OrderCutoff(move, ply, depth) ==
  /\ historyAt(ai, from(move), to(move)) + depth * depth <= MaxHistory
  /\ ai' = updateHistory(updateKillers(ai, move, ply), move, depth)
  /\ lastCall' = [op |-> "cutoff", ret |-> TRUE]
  /\ UNCHANGED <<game, origin, made, th, timeUp, gh, tg>>

\* orderMoves(moves, game, ttMove, ply) on the legal moves of the position
OrderMoves(ttMove, ply) ==
  /\ lastCall' = [op |-> "orderMoves", arg |-> [ttMove |-> ttMove, ply |-> ply],
                  ret |-> orderMoves(ai, generateLegalMoves(game), game, ttMove, ply)]
  /\ UNCHANGED <<game, origin, made, searchVars>>

ClearKillers ==
  /\ ai' = clearKillers(ai)
  /\ lastCall' = [op |-> "clearKillers", ret |-> TRUE]
  /\ UNCHANGED <<game, origin, made, th, timeUp, gh, tg>>

OrderNext ==
  \/ \E move \in OrderCutoffMoves(game), ply \in OrderPlies, depth \in OrderDepths :
       OrderCutoff(move, ply, depth)
  \/ \E ttMove \in OrderTTMoves(game), ply \in OrderPlies :
       OrderMoves(ttMove, ply)
  \/ ClearKillers

OrderSpec == OrderInit /\ [][OrderNext]_vars

(***************************************************************************)
(* Properties of the board state.                                          *)
(***************************************************************************)
\* what the claims compare of two Game objects
Observed(g) ==
  <<g.pawns, g.queen, g.sideToMove, g.ply, g.hash, Len(g.moveHistory)>>

LegalMoveSet(g) == SeqToSet(generateLegalMoves(g))

\* C1: in every position reached, makeMove(m) followed by unmakeMove()
\* restores pawn set, queen set, side to move, ply, fingerprint and history
\* length, for every move m of generateLegalMoves()
C1_RoundTrip ==
  \A m \in LegalMoveSet(game) :
    LET made1 == makeMove(game, m)
        back == unmakeMove(made1.game)
    IN made1.ok /\ back.ok /\ Observed(back.game) = Observed(game)

\* C1, on a game that reset() was never called on after construction: the
\* round trip holds
C1_RoundTripWithoutReset == origin # "reset" => C1_RoundTrip

\* bit b (0..63) of a 64-bit value
BitOf(h, b) == (h[b \div 16 + 1] \div 2 ^ (b % 16)) % 2

\* C2: on a game constructed or set up by setPosition, after any makeMove and
\* unmakeMove calls, the fingerprint is the one computed from scratch: a bit
\* of it is set exactly when an odd number of the keys that apply (the pawn
\* key of each pawn square, the queen key of the queen square, the side key
\* when the queen side is to move) have that bit
C2_HashFromScratch ==
  origin # "reset" =>
    \A b \in 0..63 :
      BitOf(game.hash, b)
        = (Cardinality({sq \in game.pawns : BitOf(pawnKeys[sq], b) = 1})
             + Cardinality({sq \in game.queen : BitOf(queenKeys[sq], b) = 1})
             + (IF game.sideToMove = BLACK THEN BitOf(sideKey, b) ELSE 0)) % 2

C2_Witness ==
  /\ origin = "setPosition"
  /\ lastCall = [op |-> "unmakeMove", ret |-> TRUE]
  /\ \E i \in 1..Len(game.moveHistory) : isCapture(game.moveHistory[i].move)

\* C3: makeMove with a move that is not in generateLegalMoves() returns false
\* and leaves the game as it was: a call that returned true pushed a move of
\* generateLegalMoves(), a call that returned false changed nothing
C3_IllegalMoveRejected ==
  [][lastCall'.op = "makeMove" =>
       IF lastCall'.ret
       THEN /\ Len(game'.moveHistory) = Len(game.moveHistory) + 1
            /\ game'.moveHistory[Len(game'.moveHistory)].move
                 \in LegalMoveSet(game)
       ELSE game' = game]_vars

C3_Witness ==
  /\ lastCall = [op |-> "makeMove", ret |-> FALSE]
  /\ game.moveHistory # <<>>
  /\ \E m \in LegalMoveSet(game) : flags(m) = CAPTURE

\* C4: unmakeMove on an empty history returns false and changes nothing; on
\* a non-empty one it pops exactly the last record, decrements ply and flips
\* the side to move
C4_UnmakeMove ==
  [][lastCall'.op = "unmakeMove" =>
       IF game.moveHistory = <<>>
       THEN lastCall'.ret = FALSE /\ game' = game
       ELSE /\ lastCall'.ret = TRUE
            /\ game'.moveHistory
                 = SubSeq(game.moveHistory, 1, Len(game.moveHistory) - 1)
            /\ game'.ply = game.ply - 1
            /\ game'.sideToMove # game.sideToMove
            /\ game'.sideToMove \in {WHITE, BLACK}]_vars

C4_Witness ==
  /\ lastCall = [op |-> "unmakeMove", ret |-> FALSE]
  /\ made > 0
  /\ origin # "reset"

\* C5: getResult decides by priority: a pawn on rank 8, else no queen, else
\* no pawn, else no legal move, else ongoing
C5_ResultPriority ==
  lastCall.op = "getResult" =>
    LET farRank == \E sq \in game.pawns : rankOf(sq) = 7
        noQueen == game.queen = {}
        noPawn == game.pawns = {}
        noMove == LegalMoveSet(game) = {}
    IN /\ farRank => lastCall.ret = "WHITE_WINS_PROMOTION"
       /\ (~farRank /\ noQueen) => lastCall.ret = "WHITE_WINS_CAPTURE"
       /\ (~farRank /\ ~noQueen /\ noPawn) => lastCall.ret = "BLACK_WINS"
       /\ (~farRank /\ ~noQueen /\ ~noPawn /\ noMove)
            => lastCall.ret = "DRAW_STALEMATE"
       /\ (~farRank /\ ~noQueen /\ ~noPawn /\ ~noMove)
            => lastCall.ret = "ONGOING"

C5_Witness ==
  /\ lastCall.op = "getResult"
  /\ lastCall.ret = "WHITE_WINS_PROMOTION"
  /\ game.queen = {}

\* the moves the rules allow, as a set
Between(a, b) ==
  LET dr == rankOf(b) - rankOf(a)
      df == fileOf(b) - fileOf(a)
      n == IF dr # 0 THEN (IF dr > 0 THEN dr ELSE -dr)
           ELSE (IF df > 0 THEN df ELSE -df)
  IN {makeSquare(fileOf(a) + (df \div n) * k, rankOf(a) + (dr \div n) * k) :
        k \in 1..(n - 1)}

OnLine(a, b) ==
  /\ a # b
  /\ \/ rankOf(a) = rankOf(b)
     \/ fileOf(a) = fileOf(b)
     \/ rankOf(a) - rankOf(b) = fileOf(a) - fileOf(b)
     \/ rankOf(a) - rankOf(b) = fileOf(b) - fileOf(a)

RuleMoves(g) ==
  LET occupied == g.pawns \cup g.queen
  IN IF g.sideToMove = WHITE
     THEN {Move(p, p + 8, QUIET) :
             p \in {x \in g.pawns : rankOf(x) < 7 /\ (x + 8) \notin occupied}}
          \cup {Move(p, p + 16, DOUBLE_PUSH) :
                  p \in {x \in g.pawns : /\ rankOf(x) = 1
                                         /\ (x + 8) \notin occupied
                                         /\ (x + 16) \notin occupied}}
          \cup {Move(pq[1], pq[2], CAPTURE) :
                  pq \in {x \in g.pawns \X g.queen :
                            /\ rankOf(x[2]) = rankOf(x[1]) + 1
                            /\ fileOf(x[2]) - fileOf(x[1]) \in {-1, 1}}}
     ELSE {Move(qt[1], qt[2], IF qt[2] \in g.pawns THEN CAPTURE ELSE QUIET) :
             qt \in {x \in g.queen \X Squares :
                       /\ OnLine(x[1], x[2])
                       /\ Between(x[1], x[2]) \cap occupied = {}
                       /\ x[2] \notin g.queen}}

\* C6: on a position with disjoint sets and at most one queen,
\* generateLegalMoves() returns exactly the moves of the rules, each once
C6_LegalMovesAreTheRules ==
  lastCall.op = "generateLegalMoves" =>
    /\ SeqToSet(lastCall.ret) = RuleMoves(game)
    /\ Cardinality(SeqToSet(lastCall.ret)) = Len(lastCall.ret)

C6_Witness ==
  /\ lastCall.op = "generateLegalMoves"
  /\ game.sideToMove = WHITE
  /\ game.pawns = {16}
  /\ game.queen = {23}
  /\ lastCall.ret = <<Move(16, 24, QUIET)>>

(***************************************************************************)
(* Properties of the search engine.                                        *)
(***************************************************************************)
\* C7: when search returns, and whenever the callback is called, the Game
\* has the pawn set, queen set, side, ply, fingerprint and history length it
\* had when search was called, and every makeMove of the search was undone
C7_GameUnchanged ==
  (th.pc = "done" \/ (th.pc = "callback" /\ ai.callback)) =>
    /\ Observed(game) = Observed(gh.entry)
    /\ gh.makes = gh.unmakes

C7_Witness ==
  /\ th.pc = "done"
  /\ gh.stopObserved
  /\ gh.callbacks # <<>>
  /\ gh.makes >= 4

\* C8: a search that observed a stop request or the deadline returns the
\* depth, score and lines of the last iteration in which every root move
\* was searched to completion
C8_StoppedReturnsLastComplete ==
  (th.pc = "done" /\ gh.stopDepth >= 1) =>
    /\ th.info.depth = gh.lastComplete.depth
    /\ th.info.score = gh.lastComplete.score
    /\ th.info.pvLines = gh.lastComplete.pvLines

\* C9: after stopSearch() was called while isSearching() was true, the
\* search starts no further depth iteration
C9_StopNeverLost ==
  [][gh.stopRequested => ~(th.pc = "iterCheck" /\ th'.pc = "rootCheck")]_vars

\* C9, for the calls of stopSearch() that come after search has cleared
\* shouldStop: none of them is lost
C9_StopAfterClearNeverLost ==
  [][(gh.stopRequested /\ ~gh.stopEarly)
       => ~(th.pc = "iterCheck" /\ th'.pc = "rootCheck")]_vars

\* C10: search on a position without legal moves returns depth 0, score 0,
\* 0 nodes and no lines, having made no move, entered no node and called no
\* callback, and isSearching() is false
C10_NoLegalMoves ==
  (th.pc = "done" /\ generateLegalMoves(gh.entry) = <<>>) =>
    /\ th.info = ZeroInfo
    /\ ai.nodes = 0
    /\ gh.makes = 0
    /\ gh.calls = 0
    /\ gh.callbacks = <<>>
    /\ ~ai.searching

C10_Witness ==
  /\ th.pc = "done"
  /\ generateLegalMoves(gh.entry) = <<>>
  /\ ai.callback
  /\ getResult(gh.entry) = "DRAW_STALEMATE"

(***************************************************************************)
(* Properties of the transposition table.                                  *)
(***************************************************************************)
\* a score is a mate score
isMateScore(s) == s > MATE_SCORE - 1000 \/ s < -MATE_SCORE + 1000

\* the score s of a node at ply p as a node at ply q should read it
scoreSeenFrom(s, p, q) ==
  IF s > MATE_SCORE - 1000 THEN s + (p - q)
  ELSE IF s < -MATE_SCORE + 1000 THEN s - (p - q)
  ELSE s

\* the call of storeTT that wrote the entry the slot of f holds, if it was
\* made with fingerprint f
HeldFor(f) ==
  LET index == ttIndex(f)
  IN IF index \in DOMAIN tg.held /\ tg.held[index].hash = f
     THEN {tg.held[index]} ELSE {}

\* C12: a score s with |s| <= MATE_SCORE that a node at ply p stored and a
\* node at ply q reads back is s again if q = p or s is no mate score, and s
\* shifted by p - q if s is a mate score.
C12_ScoreRoundTrip ==
  (lastCall.op = "probeTT" /\ lastCall.ret.valid) =>
    \A h \in HeldFor(lastCall.ret.hash) :
      abs(h.score) <= MATE_SCORE =>
        lastCall.ret.score = scoreSeenFrom(h.score, h.ply, lastCall.ret.ply)

\* C13: probeTT(f) hits exactly if the slot of f holds an entry stored with
\* fingerprint f in the current or the preceding search invocation; a slot
\* never written, or cleared, is a miss for every fingerprint.
C13_ProbeFreshness ==
  \A f \in TTHashes :
    probeTT(ai, f).hit <=>
      \E h \in HeldFor(f) : h.generation \in {tg.generation, tg.generation - 1}

C15_MostRecentStoreFound ==
  /\ \A index \in DOMAIN tg.last :
       LET l == tg.last[index]
           probe == probeTT(ai, l.hash)
       IN (l.generation = tg.generation /\ l.covered) =>
            /\ probe.hit
            /\ probe.entry.hash = l.hash
            /\ probe.entry.depth = l.depth
            /\ probe.entry.flag = l.flag
            /\ probe.entry.bestMove = l.bestMove
  /\ \A f \in TTHashes :
       (ttIndex(f) \in DOMAIN tg.held /\ tg.held[ttIndex(f)].hash # f) =>
         ~probeTT(ai, f).hit

\* two fingerprints were stored to one slot in this generation, and a node
\* has probed the later one
C15_Witness ==
  /\ lastCall.op = "probeTT"
  /\ lastCall.ret.hit
  /\ ttIndex(lastCall.ret.hash) \in DOMAIN tg.last
  /\ tg.last[ttIndex(lastCall.ret.hash)].displaced
  /\ tg.last[ttIndex(lastCall.ret.hash)].generation = tg.generation
  /\ tg.last[ttIndex(lastCall.ret.hash)].hash = lastCall.ret.hash
  /\ tg.generation > 255

(***************************************************************************)
(* Properties of searches that nobody stops.                               *)
(***************************************************************************)
MinOf(S) == CHOOSE x \in S : \A y \in S : x <= y

MaxOf(S) == CHOOSE x \in S : \A y \in S : x >= y

\* {n} if side forces a decisive win from g in n <= k plies against every
\* defence (n the least such number), {} if it does not
RECURSIVE WinIn(_, _, _)
WinIn(g, side, k) ==
  LET result == getResult(g)
      after == {WinIn(makeMove(g, m).game, side, k - 1) :
                  m \in SeqToSet(generateLegalMoves(g))}
  IN IF result # "ONGOING"
     THEN (IF (side = WHITE /\ result \in {"WHITE_WINS_PROMOTION", "WHITE_WINS_CAPTURE"})
               \/ (side = BLACK /\ result = "BLACK_WINS")
           THEN {0} ELSE {})
     ELSE IF k = 0 THEN {}
     ELSE IF g.sideToMove = side
     THEN (IF UNION after = {} THEN {} ELSE {MinOf(UNION after) + 1})
     ELSE (IF {} \in after \/ after = {} THEN {} ELSE {MaxOf(UNION after) + 1})

\* the plies, counted from the root, in which the root move m of the search
\* under way forces a win for the mover within depth d
RootWinIn(m, d) ==
  {n + 1 : n \in WinIn(makeMove(gh.entry, m).game, gh.entry.sideToMove, d - 1)}

\* C11: in a search that is not cancelled, of two root moves that force a
\* win within the searched depth the one that needs fewer plies has the
\* strictly greater recorded score, and a root move that wins at once
\* (terminal position at ply 1) has the score MATE_SCORE - 1.
C11_MateDistanceOrdering ==
  th.pc = "callback" =>
    \A i \in 1..Len(th.rootScores) :
      \A ni \in RootWinIn(th.rootScores[i][2], th.depth) :
        /\ ni = 1 => th.rootScores[i][1] = MATE_SCORE - 1
        /\ \A j \in 1..Len(th.rootScores) :
             \A nj \in RootWinIn(th.rootScores[j][2], th.depth) :
               ni < nj => th.rootScores[i][1] > th.rootScores[j][1]

\* C16: every root move is searched with the full window: the call of
\* alphaBeta made by search has alpha = -INFINITY_SCORE and
\* beta = INFINITY_SCORE whatever the earlier root moves scored.
C16_RootFullWindow ==
  th.stack # <<>> =>
    /\ th.stack[1].alpha = -INFINITY_SCORE
    /\ th.stack[1].beta = INFINITY_SCORE

\* the moves of line are legal one after the other from g, and none follows
\* a position in which the game is over
RECURSIVE LegalLine(_, _)
LegalLine(g, line) ==
  \/ line = <<>>
  \/ /\ ~isGameOver(g)
     /\ Head(line) \in SeqToSet(generateLegalMoves(g))
     /\ LegalLine(makeMove(g, Head(line)).game, Tail(line))

\* C17: after a completed iteration at depth d every reported line has
\* between 1 and d moves, each legal where it is played and none after the
\* end of the game; the best move is a legal root move, and from the
\* initial position at depth 1 it is a pawn push.
C17_LinesAreLegal ==
  th.pc = "callback" =>
    /\ th.info.pvLines # <<>>
    /\ \A k \in 1..Len(th.info.pvLines) :
         /\ Len(th.info.pvLines[k].moves) \in 1..th.depth
         /\ LegalLine(gh.entry, th.info.pvLines[k].moves)
    /\ ai.bestMoveFound = th.info.pvLines[1].moves[1]
    /\ ai.bestMoveFound \in SeqToSet(generateLegalMoves(gh.entry))
    /\ (Observed(gh.entry) = Observed(NewGame) /\ th.depth = 1) =>
         /\ from(ai.bestMoveFound) \in gh.entry.pawns
         /\ to(ai.bestMoveFound) \notin gh.entry.queen
         /\ ~isCapture(ai.bestMoveFound)

\* the same for the searches of a game that is not over when search is
\* called
C17_LinesAreLegalGameNotOver ==
  getResult(gh.entry) = "ONGOING" => C17_LinesAreLegal

\* a completed iteration at depth 3 that reports a line of three moves
C17_Witness ==
  /\ th.pc = "callback"
  /\ th.depth = 3
  /\ \E k \in 1..Len(th.info.pvLines) : Len(th.info.pvLines[k].moves) = 3
  /\ gh.searches = 2

\* C18: in one search the callback is called with the depths 1, 2, 3, ... in
\* turn, once each, only while no call of alphaBeta or quiescence is active,
\* and search returns the SearchInfo of the last call of the callback.
C18_CallbackOncePerDepth ==
  /\ \A k \in 1..Len(gh.callbacks) : gh.callbacks[k].depth = k
  /\ (th.pc = "callback" /\ ai.callback) => th.stack = <<>>
  /\ (th.pc = "done" /\ ai.callback) =>
       th.info = IF gh.callbacks = <<>> THEN ZeroInfo
                 ELSE gh.callbacks[Len(gh.callbacks)]

\* a second search that returned after two calls of the callback
C18_Witness ==
  /\ th.pc = "done"
  /\ gh.searches = 2
  /\ Len(gh.callbacks) = 2
  /\ th.info.depth = 2

\* C19: without a stop request and with time budget 0, a search of a
\* position with a legal move returns the configured maximum depth.
C19_RunsToMaxDepth ==
  (th.pc = "done" /\ generateLegalMoves(gh.entry) # <<>>) =>
    th.info.depth = ai.maxDepth

\* the score ends the search once depth 10 is reached
EndsOnMate(info) ==
  info.depth >= 10
    /\ (info.score > MATE_SCORE - 1000 \/ info.score < -MATE_SCORE + 1000)

\* C19 as amended: without a stop request and with time budget 0, a search
\* of a position with a legal move runs the iterations 1, 2, ... in turn and
\* returns the configured maximum depth, or the depth of the first
\* iteration at depth 10 or more that reported a mate score.
C19_RunsToMaxDepthOrMate ==
  (th.pc = "done" /\ generateLegalMoves(gh.entry) # <<>>) =>
    /\ Len(gh.callbacks) = th.info.depth
    /\ \A k \in 1..Len(gh.callbacks) :
         /\ gh.callbacks[k].depth = k
         /\ k < Len(gh.callbacks) => ~EndsOnMate(gh.callbacks[k])
    /\ \/ th.info.depth = ai.maxDepth
       \/ th.info.depth < ai.maxDepth /\ EndsOnMate(th.info)

\* a search to depth 11 that returned after the iteration at depth 10
C19_Witness ==
  /\ th.pc = "done"
  /\ ai.maxDepth = 11
  /\ th.info.depth = 10
  /\ Len(gh.callbacks) = 10

\* C20: the second search of the same position on the same engine returns
\* the best move and the lines the first one returned.
C20_SameResultTwice ==
  (th.pc = "done" /\ gh.searches = 2) =>
    /\ ai.bestMoveFound = gh.previousBest
    /\ th.info.pvLines = gh.previous.pvLines

(***************************************************************************)
(* Move text.                                                              *)
(***************************************************************************)
\* C21: in every position with disjoint sets and at most one queen, the text
\* moveToAlgebraic gives for a legal move m is read back by algebraicToMove,
\* in that position, as m itself, flag included
C21_AlgebraicRoundTrip ==
  lastCall.op = "algebraicToMove" =>
    \A m \in LegalMoveSet(game) :
      lastCall.arg = moveToAlgebraic(m) => lastCall.ret = m

C21_Witness ==
  /\ lastCall.op = "algebraicToMove"
  /\ lastCall.ret \in LegalMoveSet(game)
  /\ isDoublePush(lastCall.ret)
  /\ lastCall.arg = moveToAlgebraic(lastCall.ret)
  /\ game.queen # {}

(***************************************************************************)
(* Move ordering.                                                          *)
(***************************************************************************)
\* the class of a move for orderMoves(moves, game, ttMove, ply): 1 cached
\* best move, 2 capture, 3 killer quiet move of this ply, 4 promotion pawn
\* move, 5 any other move (ranked by history score and pawn advancement)
moveClass(a, move, g, ttMove, ply) ==
  IF move = ttMove THEN 1
  ELSE IF isCapture(move) THEN 2
  ELSE IF ply < 128 /\ (move = killersAt(a, ply)[1] \/ move = killersAt(a, ply)[2])
  THEN 3
  ELSE IF g.sideToMove = WHITE /\ isPromotion(move) THEN 4
  ELSE 5

\* C22: orderMoves places a move of a higher class before every move of a
\* lower class, and the cached best move, when it is in the list, first
C22_OrderByClass ==
  lastCall.op = "orderMoves" =>
    LET moves == lastCall.ret
        cls(i) == moveClass(ai, moves[i], game, lastCall.arg.ttMove, lastCall.arg.ply)
    IN /\ \A i, j \in 1..Len(moves) : cls(i) < cls(j) => i < j
       /\ \A i \in 1..Len(moves) : moves[i] = lastCall.arg.ttMove => i = 1

(***************************************************************************)
(* The board after moves.                                                  *)
(***************************************************************************)
\* C23: in every state reached from the constructed game by makeMove and
\* unmakeMove alone, pawns and queen are disjoint, there is at most one
\* queen, no pawn is on rank 1 and there are at most 8 pawns
C23_BoardInvariant ==
  origin = "constructed" =>
    /\ game.pawns \cap game.queen = {}
    /\ Cardinality(game.queen) <= 1
    /\ \A sq \in game.pawns : rankOf(sq) # 0
    /\ Cardinality(game.pawns) <= 8

\* the queen has just captured the d pawn
C23_Witness ==
  /\ origin = "constructed"
  /\ lastCall.op = "makeMove"
  /\ lastCall.ret = TRUE
  /\ game.queen = {11}
  /\ Cardinality(game.pawns) = 7
  /\ game.moveHistory # <<>>
  /\ isCapture(game.moveHistory[Len(game.moveHistory)].move)

(***************************************************************************)
(* What a node of alphaBeta stores.                                        *)
(***************************************************************************)
\* the window the innermost frame was called with: its caller, the frame
\* below or the root loop of search, passed (-beta, -alpha) and keeps both
\* until the call returns
calledAlpha(t) ==
  IF Len(t.stack) = 1 THEN -t.beta ELSE -t.stack[Len(t.stack) - 1].beta

calledBeta(t) ==
  IF Len(t.stack) = 1 THEN -t.alpha ELSE -t.stack[Len(t.stack) - 1].alpha

\* C24: a step that writes the cache is the end of an alphaBeta node; the
\* entry written is tagged TT_ALPHA if the score the node returns is at most
\* the alpha it was called with, TT_BETA if it is at least the beta, TT_EXACT
\* if it is strictly between, and its best move is legal in the node's
\* position
C24_StoredFlagAndMove ==
  [][ai'.transTable # ai.transTable =>
       LET entry == ttSlot(ai', ttIndex(game'.hash))
           best == th'.ret
       IN /\ th.stack # <<>>
          /\ Top(th).fn = "alphaBeta"
          /\ Len(th'.stack) = Len(th.stack) - 1
          /\ entry.hash = game'.hash
          /\ entry.depth = Top(th).depth
          /\ entry.flag = (IF best <= calledAlpha(th) THEN TT_ALPHA
                           ELSE IF best >= calledBeta(th) THEN TT_BETA
                           ELSE TT_EXACT)
          /\ entry.bestMove \in LegalMoveSet(game')]_vars

\* the cache holds an entry of each kind while a search is under way
C24_Witness ==
  /\ th.pc \notin {"idle", "done"}
  /\ \A fl \in {TT_ALPHA, TT_BETA, TT_EXACT} :
       \E index \in DOMAIN ai.transTable :
         /\ ai.transTable[index].flag = fl
         /\ isValid(ai.transTable[index].bestMove)

(***************************************************************************)
(* Cancellation.                                                           *)
(***************************************************************************)
\* C25: the step of the searching thread in which a read of the stop flag
\* finds it set, and every later step of that invocation, neither writes the
\* cache, the killer table or the history table nor records a root score
\* (the scores recorded before may still be sorted)
C25_NothingUsedAfterStop ==
  [][(gh'.stopObserved /\ th.pc \notin {"idle", "done"}) =>
       /\ ai'.transTable = ai.transTable
       /\ ai'.killers = ai.killers
       /\ ai'.history = ai.history
       /\ Len(th'.rootScores) <= Len(th.rootScores)
       /\ SeqToSet(th'.rootScores) \subseteq SeqToSet(th.rootScores)]_vars

\* a cancelled frame has returned the placeholder to a node of alphaBeta
\* that has scored a move before and to a root loop that has recorded one
C25_Witness ==
  /\ gh.stopObserved
  /\ th.pc = "abAfterChild"
  /\ th.ret = 0
  /\ Top(th).bestScore > -INFINITY_SCORE
  /\ th.rootScores # <<>>
  /\ ai.transTable # <<>>

\* C26: from the step in which the searching thread finds the stop flag set,
\* the node counter does not increase, no makeMove is made on the searched
\* game and no frame is entered in that invocation; the active frames return,
\* each after its unmakeMove, and search returns with the game as it was
C26_StopUnwinds ==
  /\ [][(gh'.stopObserved /\ th.pc \notin {"idle", "done"}) =>
          /\ ai'.nodes = ai.nodes
          /\ gh'.makes = gh.makes
          /\ Len(game'.moveHistory) <= Len(game.moveHistory)
          /\ Len(th'.stack) <= Len(th.stack)]_vars
  /\ (gh.stopObserved /\ th.pc \notin {"idle", "done"})
       ~> (th.pc = "done" /\ th.stack = <<>> /\ gh.unmakes = gh.makes
           /\ game = gh.entry /\ ~ai.searching)

\* the stop is found three frames deep in quiescence
C26_Witness ==
  /\ gh.stopObserved
  /\ th.pc = "qsAfterChild"
  /\ Len(th.stack) >= 3
  /\ gh.makes > gh.unmakes

\* C27: a call of alphaBeta or quiescence that is entered after the deadline
\* has passed finds it at its first line: it sets the stop flag and returns
\* without counting a node
C27_DeadlineAtEveryEntry ==
  [][(th.pc \in {"abEntry", "qsEntry"} /\ th' # th
        /\ ai.timeLimitMs > 0 /\ timeUp) =>
       /\ ai'.shouldStop
       /\ ai'.nodes = ai.nodes
       /\ Len(th'.stack) < Len(th.stack)]_vars

(***************************************************************************)
(* Killer and history tables.                                              *)
(***************************************************************************)
\* the step is the cutoff branch of a node of alphaBeta: the stop flag is
\* clear after unmakeMove and the move's score beats bestScore and alpha and
\* reaches beta
isCutoffStep ==
  /\ th.pc = "abAfterChild"
  /\ th' # th
  /\ ~ai.shouldStop
  /\ -th.ret > Top(th).bestScore
  /\ -th.ret > Top(th).alpha
  /\ -th.ret >= Top(th).beta

cutoffMove == Top(th).moves[Top(th).i + 1]

\* C28: the killer slots of every ply hold non-capture moves and differ
\* unless both are null; a cutoff by a non-capture move puts that move into
\* slot 0 of its ply (the move that was there goes to slot 1 if it differs),
\* leaves the other plies alone and adds depth * depth to the move's history
\* entry and to no other; no other step of search, of a new iteration or of
\* a new search changes either table
C28_KillersAndHistory ==
  /\ [](\A ply \in DOMAIN ai.killers :
          /\ ~isCapture(ai.killers[ply][1])
          /\ ~isCapture(ai.killers[ply][2])
          /\ (ai.killers[ply][1] = ai.killers[ply][2]
                => ai.killers[ply] = NoKillers))
  /\ [][IF isCutoffStep /\ ~isCapture(cutoffMove)
        THEN LET move == cutoffMove
                 ply == Top(th).ply
                 depth == Top(th).depth
             IN /\ killersAt(ai', ply)[1] = move
                /\ killersAt(ai', ply)[2] =
                     (IF killersAt(ai, ply)[1] = move THEN killersAt(ai, ply)[2]
                      ELSE killersAt(ai, ply)[1])
                /\ \A p \in (DOMAIN ai.killers \cup DOMAIN ai'.killers) \ {ply} :
                     killersAt(ai', p) = killersAt(ai, p)
                /\ \A k \in DOMAIN ai.history \cup DOMAIN ai'.history :
                     historyAt(ai', k[1], k[2]) =
                       historyAt(ai, k[1], k[2])
                         + (IF k = <<from(move), to(move)>> THEN depth * depth ELSE 0)
                /\ historyAt(ai', from(move), to(move)) >= depth * depth
        ELSE ai'.killers = ai.killers /\ ai'.history = ai.history]_vars

\* a second search is under way with two killers at ply 1, slot 0 set by the
\* latest cutoff, and a history entry that grew in more than one cutoff
C28_Witness ==
  /\ gh.searches = 2
  /\ th.pc \notin {"idle", "done"}
  /\ 1 \in DOMAIN ai.killers
  /\ ai.killers[1][2] # NullMove
  /\ \E k \in DOMAIN ai.history : ai.history[k] > 4

(***************************************************************************)
(* The best move after search.                                             *)
(***************************************************************************)
\* C29: when search has returned, getBestMove() is the first move of the
\* first line of the SearchInfo returned, and the null move if that has no
\* line
C29_BestMoveIsReported ==
  th.pc = "done" =>
    ai.bestMoveFound =
      (IF th.info.pvLines = <<>> THEN NullMove ELSE th.info.pvLines[1].moves[1])

(***************************************************************************)
(* The ply counter and the undo records.                                   *)
(***************************************************************************)
\* C30: ply is the number of undo records and is never negative, and right
\* after reset() the game is the freshly constructed game (no undo record
\* is left, so that unmakeMove() fails)
C30_PlyCountsUndoRecords ==
  /\ game.ply = Len(game.moveHistory)
  /\ game.ply >= 0
  /\ lastCall.op = "reset" => /\ game = NewGame
                              /\ ~unmakeMove(game).ok

(***************************************************************************)
(* Termination of quiescence and of search.                                *)
(***************************************************************************)
\* the calls of quiescence that are active below the leaf call: the frames
\* of quiescence at the end of the stack, the leaf call itself not counted
RECURSIVE qsFrames(_)
qsFrames(stack) ==
  IF stack = <<>> \/ stack[Len(stack)].fn # "quiescence" THEN 0
  ELSE 1 + qsFrames(SubSeq(stack, 1, Len(stack) - 1))

qsDepth(t) == IF qsFrames(t.stack) = 0 THEN 0 ELSE qsFrames(t.stack) - 1

\* the game after n calls of unmakeMove
RECURSIVE unmakeMoves(_, _)
unmakeMoves(g, n) == IF n = 0 THEN g ELSE unmakeMoves(unmakeMove(g).game, n - 1)

\* the position at the leaf whose quiescence search is under way: a move
\* made by quiescence is on the board from the call until the caller has
\* taken it back
qsLeaf ==
  unmakeMoves(game, qsDepth(th) + (IF th.pc = "qsAfterChild" THEN 1 ELSE 0))

pieceCount(g) == popCount(g.pawns) + popCount(g.queen)

\* C31: a search that nobody stops returns; every move quiescence tries
\* takes a piece off the board or puts a pawn on rank 8, where the call it
\* leads to returns at its terminal check; the calls of quiescence nested
\* below a leaf are at most the number of pawns at the leaf plus one
C31_SearchTerminates ==
  /\ [](qsDepth(th) <= popCount(qsLeaf.pawns) + 1)
  /\ [][th.pc = "qsLoop" /\ th'.pc = "qsEntry"
          => \/ pieceCount(game') < pieceCount(game)
             \/ /\ game'.pawns \cap RANK_8 # {}
                /\ getResult(game') # "ONGOING"]_vars
  /\ (th.pc \notin {"idle", "done"}) ~> (th.pc = "done")

\* quiescence is two calls below a leaf with the queen to move: she took
\* a pawn, and the pawn side answered with a promotion or by taking her
C31_Witness ==
  /\ th.pc = "qsEntry"
  /\ qsDepth(th) = 2
  /\ qsLeaf.sideToMove = BLACK
  /\ popCount(game.pawns) < popCount(qsLeaf.pawns)
  /\ getResult(game) # "ONGOING"
  /\ ~gh.stopRequested /\ ai.timeLimitMs = 0

(***************************************************************************)
(* Games end.                                                              *)
(***************************************************************************)
\* the sum of the ranks (1..8) of the pawns
RECURSIVE rankSum(_)
rankSum(bb) ==
  IF bb = {} THEN 0 ELSE rankOf(lsb(bb)) + 1 + rankSum(bb \ {lsb(bb)})

Position(g) == <<g.pawns, g.queen, g.sideToMove>>

\* the positions the game went through before the present one
RECURSIVE earlierPositions(_)
earlierPositions(g) ==
  IF g.moveHistory = <<>> THEN {}
  ELSE {Position(unmakeMove(g).game)} \cup earlierPositions(unmakeMove(g).game)

\* C32: in a game played from the initial position with legal moves, every
\* move of the pawn side raises the sum of the pawn ranks or takes the
\* queen, no position with the pawn side to move occurs twice, and the
\* game is over after at most 96 plies
C32_PlayIsFinite ==
  /\ [](game.ply <= 96 /\ (getResult(game) = "ONGOING" => game.ply < 96))
  /\ [][game.sideToMove = WHITE /\ game'.ply = game.ply + 1
          => \/ rankSum(game'.pawns) > rankSum(game.pawns)
             \/ game.queen # {} /\ game'.queen = {}]_vars
  /\ [](game.sideToMove = WHITE => Position(game) \notin earlierPositions(game))

\* a game of 81 plies: every pawn went to rank 7 step by step while the
\* queen went to and fro between squares, and the next push promoted
C32_Witness ==
  /\ game.ply = 81
  /\ getResult(game) = "WHITE_WINS_PROMOTION"
  /\ popCount(game.pawns) = 8
  /\ game.queen \in {p[2] : p \in earlierPositions(game)}

(***************************************************************************)
(* Who has lost at a terminal node.                                        *)
(***************************************************************************)
isDecisive(g) == getResult(g) \notin {"ONGOING", "DRAW_STALEMATE"}

winner(g) == IF getResult(g) = "BLACK_WINS" THEN BLACK ELSE WHITE

\* C33: a legal move from an ongoing position that ends the game with a
\* winner is won by the side that moved; the search makes moves from
\* ongoing positions only, the root included, so that at every terminal
\* check that finds a winner the side to move is the loser
C33_SideToMoveHasLost ==
  /\ [](getResult(game) = "ONGOING" =>
          \A mv \in LegalMoveSet(game) :
            isDecisive(makeMove(game, mv).game) =>
              winner(makeMove(game, mv).game) = game.sideToMove)
  /\ [][Len(game'.moveHistory) > Len(game.moveHistory)
          => getResult(game) = "ONGOING"]_vars
  /\ []((th.pc \in {"abEntry", "qsEntry"} /\ isDecisive(game)) =>
          winner(game) # game.sideToMove)

(***************************************************************************)
(* A finished game.                                                        *)
(***************************************************************************)
\* C34: a makeMove that succeeds on a game whose result is not ONGOING
\* leaves the result as it was
C34_FinishedStaysFinished ==
  [][(lastCall'.op = "makeMove" /\ lastCall'.ret = TRUE
        /\ Len(game'.moveHistory) = Len(game.moveHistory) + 1
        /\ getResult(game) # "ONGOING")
       => getResult(game') = getResult(game)]_vars
====
